---- MODULE Spec2Model ----
(***************************************************************************)
(* The resolver / authorization / subscription layer of the Hackernews     *)
(* GraphQL server: utils.js (getUserId), resolvers/Mutation.js,            *)
(* resolvers/Query.js, resolvers/Subscription.js, over the Prisma client   *)
(* (the data access facade and its CREATED-event subscriptions).           *)
(*                                                                         *)
(* Every resolver is an async function: the part up to its first await     *)
(* runs at invocation, each facade call is applied by the store at a       *)
(* later step, and the resolver's promise settles at a step after that.    *)
(* Steps of different requests interleave freely.                          *)
(***************************************************************************)
EXTENDS Integers, Sequences, FiniteSets, TLC

VARIABLES
    users,      \* the User table, in creation order
    links,      \* the Link table, in creation order
    votes,      \* the Vote table, in creation order
    linkSeq,    \* number of Links ever created (source of fresh Link ids)
    reqs,       \* the inbound operations: request id -> resolver activation
    conns,      \* the subscription connections: connection id -> registration
    inbox,      \* connection id -> payloads pushed to that connection so far
    published,  \* every CREATED event the store has emitted, in order
    tokens,     \* the tokens handed out to clients so far
    probe       \* the header under test of the Identity Extractor, and its outcome

vars == <<users, links, votes, linkSeq, reqs, conns, inbox, published, tokens, probe>>

----------------------------------------------------------------------------
(* Bounds of the model.                                                    *)

\* requests that may run concurrently in Spec
MaxReq == 2
\* requests that run one after another in SpecSerial
MaxSerial == 3
\* requests that may run concurrently with the subscriptions in SpecBus
MaxBusReq == 2
\* subscription connections
MaxConn == 1
\* chunks in an Authorization header given to the Identity Extractor
MaxHdrLen == 3
\* Links in the store a feed query runs against
MaxFeedLinks == 2
\* subscription connections that come and go side by side in SpecRegistry
MaxListeners == 2

Max(a, b) == IF a >= b THEN a ELSE b

ReqIds == 1..Max(Max(MaxReq, MaxSerial), MaxBusReq)
ConnIds == 1..Max(MaxConn, MaxListeners)

----------------------------------------------------------------------------
(* Strings are sequences of the characters "g" and "G".                    *)

\* s.includes(f): f occurs in s as a contiguous, case-sensitive substring
Contains(s, f) ==
    \E i \in 0..(Len(s) - Len(f)) : SubSeq(s, i + 1, i + Len(f)) = f

\* the values the clients send as url and description
Texts == {<<"g">>, <<"G">>, <<"G", "g">>}

----------------------------------------------------------------------------
(* Token Service: jsonwebtoken with the process-wide secret.               *)

APP_SECRET == "GraphQL-is-aw3some"

OtherSecret == "not-the-app-secret"

\* jwt.sign(payload, secret): the payload with a signature under secret
JwtSign(payload, secret) ==
    [kind |-> "jwt", text |-> "", payload |-> payload, sig |-> secret]

\* The text of a header is a sequence of chunks: literal pieces and tokens.
Lit(s) == [kind |-> "text", text |-> s, payload |-> [userId |-> 0], sig |-> ""]

Bearer == Lit("Bearer ")

\* jwt.verify(token, secret): the payload, or a thrown JsonWebTokenError.
\* The text handed to it is a well-formed token only when it is exactly
\* one token; the signature must be the one secret produces.
JwtVerify(token, secret) ==
    IF Len(token) = 1 /\ token[1].kind = "jwt" /\ token[1].sig = secret
    THEN [ok |-> TRUE, payload |-> token[1].payload]
    ELSE [ok |-> FALSE, payload |-> [userId |-> 0]]

\* bcrypt.hash(password, 10): the cost factor
SaltRounds == 10

Salts == {"salt1", "salt2"}

\* bcrypt.hash(password, rounds) with the salt bcrypt draws
BcryptHash(password, salt) ==
    [alg |-> "bcrypt", rounds |-> SaltRounds, salt |-> salt, digest |-> <<salt, password>>]

\* bcrypt.compare(password, hash): re-hash with the stored salt and compare
BcryptCompare(password, hash) ==
    hash = BcryptHash(password, hash.salt)

----------------------------------------------------------------------------
(* Identity Extractor: utils.js.                                           *)

\* context.request.get('Authorization'): undefined when the header is absent
NoHeader == [present |-> FALSE, text |-> <<>>]

Header(text) == [present |-> TRUE, text |-> text]

\* String.prototype.replace(pattern, ''): removes the FIRST occurrence of the
\* pattern, wherever it is, and leaves a text without it unchanged
RECURSIVE Replace(_, _)
Replace(text, pat) ==
    IF text = <<>> THEN <<>>
    ELSE IF Head(text) = pat THEN Tail(text)
    ELSE <<Head(text)>> \o Replace(Tail(text), pat)

Thrown(kind) == [ok |-> FALSE, kind |-> kind, userId |-> 0]

\* getUserId(context): the user id, or the error it throws.  An error of
\* jwt.verify propagates to the caller like the function's own
\* 'Not authenticated': the caller is not authenticated either way.
getUserId(hdr) ==
    IF hdr.present /\ hdr.text # <<>>
    THEN LET token == Replace(hdr.text, Bearer)
             verified == JwtVerify(token, APP_SECRET)
         IN  IF verified.ok
             THEN [ok |-> TRUE, kind |-> "ok", userId |-> verified.payload.userId]
             ELSE Thrown("NotAuthenticated")
    ELSE Thrown("NotAuthenticated")

----------------------------------------------------------------------------
(* Data Access Facade: the generated Prisma client over the datamodel      *)
(* (User.email @unique, Link.postedBy: User, Vote.link: Link!,             *)
(* Vote.user: User!).  Each operator is what the store does when the call  *)
(* is applied.                                                             *)

SeqToSet(s) == {s[i] : i \in 1..Len(s)}

RECURSIVE Select(_, _)
\* the elements of s at the positions of the set keep, in order
Select(s, keep) ==
    IF s = <<>> THEN <<>>
    ELSE LET rest == Select(Tail(s), {i - 1 : i \in keep \ {1}})
         IN  IF 1 \in keep THEN <<Head(s)>> \o rest ELSE rest

UserIdsOf(us) == {us[i].id : i \in 1..Len(us)}
LinkIdsOf(ls) == {ls[i].id : i \in 1..Len(ls)}

\* prisma.user({ email }): the User with that email, or null
UserByEmail(us, email) ==
    LET hits == {i \in 1..Len(us) : us[i].email = email}
    IN  IF hits = {} THEN [found |-> FALSE, user |-> [id |-> 0]]
        ELSE [found |-> TRUE, user |-> us[CHOOSE i \in hits : TRUE]]

\* an existence check that looks at the user alone
ExistsVote_anyLink(vs, userId, linkId) ==
    \E i \in 1..Len(vs) : vs[i].user = userId

\* prisma.$exists.vote({ user: { id }, link: { id } }): true iff the
\* condition applies to at least one Vote
ExistsVote(vs, userId, linkId) ==
    \E i \in 1..Len(vs) : vs[i].user = userId /\ vs[i].link = linkId

\* the Votes of the pair (userId, linkId)
VotesOf(vs, userId, linkId) ==
    {i \in 1..Len(vs) : vs[i].user = userId /\ vs[i].link = linkId}

\* a where-object of the Link model, evaluated on one Link: {} matches
\* everything, { OR: [...] } matches when one branch does, { AND: [...] }
\* when all do
FieldContains(link, cond) ==
    IF cond.field = "description" THEN Contains(link.description, cond.value)
    ELSE Contains(link.url, cond.value)

EvalWhere(where, link) ==
    IF DOMAIN where = {} THEN TRUE
    ELSE IF "OR" \in DOMAIN where
         THEN \E i \in 1..Len(where.OR) : FieldContains(link, where.OR[i])
    ELSE \A i \in 1..Len(where.AND) : FieldContains(link, where.AND[i])

----------------------------------------------------------------------------
(* Event Bus: prisma.$subscribe.<model>({ mutation_in: ['CREATED'] }).     *)
(* The store emits one CREATED event per created node; the event is pushed *)
(* to the connections registered for that model when it is emitted.        *)

\* a connection: not yet opened, live (subscribed to one event kind), closed
\* by its holder, or lost; regs is the number of listener registrations the
\* bus holds for it; it remembers how many events had been emitted and which
\* requests had settled when it registered
NoConn == [st |-> "none", kind |-> "none", regs |-> 0,
           pubAtReg |-> 0, settledAtReg |-> {}]

\* the companion resolve step of a subscription field: payload => payload
Resolve_wrapped(payload) == [node |-> payload]

Resolve(payload) == payload

\* the connections an event of this kind is pushed to: those the registry
\* holds a listener for
Listeners(kind) == {c \in ConnIds : conns[c].regs > 0 /\ conns[c].kind = kind}

Publish(kind, node) ==
    /\ published' = Append(published, [kind |-> kind, node |-> node])
    /\ inbox' = [c \in ConnIds |->
                   IF c \in Listeners(kind) THEN Append(inbox[c], Resolve(node))
                   ELSE inbox[c]]

\* the requests whose promise has settled
Settled == {q \in ReqIds : reqs[q].pc = "done"}

\* subscribing twice for one connection
Subscribe_twice(c, kind) ==
    /\ conns[c].st = "none"
    /\ conns' = [conns EXCEPT ![c] = [st |-> "live", kind |-> kind, regs |-> 2,
                                      pubAtReg |-> Len(published),
                                      settledAtReg |-> Settled]]
    /\ UNCHANGED <<users, links, votes, linkSeq, reqs, inbox, published, tokens, probe>>

\* subscribing to events that never occur for the node: the connection is
\* live and the bus holds no listener of the kind for it
Subscribe_noListener(c, kind) ==
    /\ conns[c].st = "none"
    /\ conns' = [conns EXCEPT ![c] = [st |-> "live", kind |-> kind, regs |-> 0,
                                      pubAtReg |-> Len(published),
                                      settledAtReg |-> Settled]]
    /\ UNCHANGED <<users, links, votes, linkSeq, reqs, inbox, published, tokens, probe>>

\* newLinkSubscribe / newVoteSubscribe: register the connection; the one
\* call of prisma.$subscribe makes one registration
Subscribe(c, kind) ==
    /\ conns[c].st = "none"
    /\ conns' = [conns EXCEPT ![c] = [st |-> "live", kind |-> kind, regs |-> 1,
                                      pubAtReg |-> Len(published),
                                      settledAtReg |-> Settled]]
    /\ UNCHANGED <<users, links, votes, linkSeq, reqs, inbox, published, tokens, probe>>

newLinkSubscribe(c) == Subscribe(c, "link")

newVoteSubscribe(c) == Subscribe(c, "vote")

\* the holder cancels the connection: its registration is removed
Unsubscribe(c) ==
    /\ conns[c].st = "live"
    /\ conns' = [conns EXCEPT ![c].st = "closed", ![c].regs = 0]
    /\ UNCHANGED <<users, links, votes, linkSeq, reqs, inbox, published, tokens, probe>>

\* the connection is lost (abnormal disconnect): teardown removes its
\* registration all the same
Disconnect(c) ==
    /\ conns[c].st = "live"
    /\ conns' = [conns EXCEPT ![c].st = "lost", ![c].regs = 0]
    /\ UNCHANGED <<users, links, votes, linkSeq, reqs, inbox, published, tokens, probe>>

----------------------------------------------------------------------------
(* Resolver activations.                                                   *)

NoValue == [none |-> TRUE]

Pending == [kind |-> "pending", value |-> NoValue]

Ok(value) == [kind |-> "ok", value |-> value]

Err(kind) == [kind |-> kind, value |-> NoValue]

Idle == [op |-> "none", args |-> NoValue, hdr |-> NoHeader, pc |-> "idle",
         userId |-> 0, local |-> NoValue, res |-> Pending]

\* an activation waiting for the store to apply the facade call `call`
Awaiting(op, args, hdr, userId, local, call) ==
    [op |-> op, args |-> args, hdr |-> hdr, pc |-> call, userId |-> userId,
     local |-> local, res |-> Pending]

\* an activation whose outcome is fixed and whose promise is about to settle
Settling(q, res) == [q EXCEPT !.pc = "settle", !.res = res]

\* a protected resolver up to its first await: getUserId runs at invocation,
\* and its exception leaves the resolver before any facade call is issued
Protected_noGate(op, args, hdr, call) ==
    LET auth == getUserId(hdr)
    IN  Awaiting(op, args, hdr, auth.userId, NoValue, call)

Protected(op, args, hdr, call) ==
    LET auth == getUserId(hdr)
    IN  IF auth.ok THEN Awaiting(op, args, hdr, auth.userId, NoValue, call)
        ELSE Settling(Awaiting(op, args, hdr, 0, NoValue, call), Err(auth.kind))

\* a request may be invoked once the requests before it have been
Invocable(r) ==
    /\ reqs[r].pc = "idle"
    /\ \A q \in ReqIds : q < r => reqs[q].pc # "idle"

Invoke(r, activation) ==
    /\ Invocable(r)
    /\ reqs' = [reqs EXCEPT ![r] = activation]
    /\ UNCHANGED <<users, links, votes, linkSeq, conns, inbox, published, tokens, probe>>

\* the inputs the clients send
Emails == {"alice@x", "bob@x"}
Passwords == {"pw1", "pw2"}
Names == {"Alice"}

ForgedTokens == {JwtSign([userId |-> 1], OtherSecret)}

\* the Authorization headers of the inbound operations: none, or Bearer
\* with a token a client holds or has made up
Headers ==
    {NoHeader} \cup {Header(<<Bearer, t>>) : t \in tokens \cup ForgedTokens}

\* none, or Bearer with a token a client holds
PlainHeaders ==
    {NoHeader} \cup {Header(<<Bearer, t>>) : t \in tokens}

\* ids the clients name: the Links that exist, and one that does not
NamedLinkIds == LinkIdsOf(links) \cup {linkSeq + 1}

----------------------------------------------------------------------------
(* resolvers/Mutation.js                                                   *)

\* post, up to the await of getUserId
post(r, args, hdr) ==
    /\ Invoke(r, Protected("post", args, hdr, "createLink"))

\* prisma.createLink({ url, description, postedBy: { connect: { id } } })
\* applied: the Link is stored with a fresh id and its CREATED event emitted.
\* Connecting a User that does not exist fails the call.
createLink(r) ==
    /\ reqs[r].pc = "createLink"
    /\ IF reqs[r].userId \in UserIdsOf(users)
       THEN LET link == [id |-> linkSeq + 1,
                         url |-> reqs[r].args.url,
                         description |-> reqs[r].args.description,
                         postedBy |-> reqs[r].userId]
            IN  /\ links' = Append(links, link)
                /\ linkSeq' = linkSeq + 1
                /\ Publish("link", link)
                /\ reqs' = [reqs EXCEPT ![r] = Settling(@, Ok(link))]
       ELSE /\ reqs' = [reqs EXCEPT ![r] = Settling(@, Err("StorageError"))]
            /\ UNCHANGED <<links, linkSeq, inbox, published>>
    /\ UNCHANGED <<users, votes, conns, tokens, probe>>

\* a clear-text password as the value of the password column
Plain(password) ==
    [alg |-> "none", rounds |-> 0, salt |-> "", digest |-> <<"", password>>]

signup_plaintext(r, args, salt) ==
    /\ Invoke(r, Awaiting("signup", args, NoHeader, 0,
                          [args EXCEPT !.password = Plain(args.password)],
                          "createUser"))

\* signup, up to the await of createUser: bcrypt.hash runs first, and the
\* data sent to the store is args with password replaced by the hash
signup(r, args, salt) ==
    /\ Invoke(r, Awaiting("signup", args, NoHeader, 0,
                          [args EXCEPT !.password = BcryptHash(args.password, salt)],
                          "createUser"))

\* prisma.createUser(data) applied, then jwt.sign({ userId: user.id }, APP_SECRET).
\* The store rejects an email that a User already has (email @unique).
createUser_noUnique(r) ==
    /\ reqs[r].pc = "createUser"
    /\ LET user == [id |-> Len(users) + 1,
                    email |-> reqs[r].local.email,
                    name |-> reqs[r].local.name,
                    password |-> reqs[r].local.password]
           token == JwtSign([userId |-> user.id], APP_SECRET)
       IN  /\ users' = Append(users, user)
           /\ reqs' = [reqs EXCEPT ![r] =
                         Settling(@, Ok([token |-> token, user |-> user]))]
    /\ UNCHANGED <<links, votes, linkSeq, conns, inbox, published, tokens, probe>>

\* a signup that signs the token for the id it expects before the store
\* has answered, and returns it whatever the answer
createUser_tokenFirst(r) ==
    /\ reqs[r].pc = "createUser"
    /\ LET user == [id |-> Len(users) + 1,
                    email |-> reqs[r].local.email,
                    name |-> reqs[r].local.name,
                    password |-> reqs[r].local.password]
           token == JwtSign([userId |-> user.id], APP_SECRET)
       IN  /\ users' = IF UserByEmail(users, user.email).found THEN users
                       ELSE Append(users, user)
           /\ reqs' = [reqs EXCEPT ![r] =
                         Settling(@, Ok([token |-> token, user |-> user]))]
    /\ UNCHANGED <<links, votes, linkSeq, conns, inbox, published, tokens, probe>>

createUser(r) ==
    /\ reqs[r].pc = "createUser"
    /\ IF UserByEmail(users, reqs[r].local.email).found
       THEN /\ reqs' = [reqs EXCEPT ![r] = Settling(@, Err("DuplicateEmail"))]
            /\ UNCHANGED users
       ELSE LET user == [id |-> Len(users) + 1,
                         email |-> reqs[r].local.email,
                         name |-> reqs[r].local.name,
                         password |-> reqs[r].local.password]
                token == JwtSign([userId |-> user.id], APP_SECRET)
            IN  /\ users' = Append(users, user)
                /\ reqs' = [reqs EXCEPT ![r] =
                              Settling(@, Ok([token |-> token, user |-> user]))]
    /\ UNCHANGED <<links, votes, linkSeq, conns, inbox, published, tokens, probe>>

\* login, up to the await of prisma.user
login(r, args) ==
    /\ Invoke(r, Awaiting("login", args, NoHeader, 0, NoValue, "user"))

\* the outcome of login once prisma.user({ email }) has answered:
\* 'No such user found', 'Invalid password', or a token for the User
loginOutcome_noCompare(found, args) ==
    IF ~found.found THEN Err("NoSuchUser")
    ELSE Ok([token |-> JwtSign([userId |-> found.user.id], APP_SECRET),
             user |-> found.user])

loginOutcome_sameError(found, args) ==
    IF ~found.found THEN Err("InvalidCredentials")
    ELSE IF ~BcryptCompare(args.password, found.user.password)
         THEN Err("InvalidCredentials")
    ELSE Ok([token |-> JwtSign([userId |-> found.user.id], APP_SECRET),
             user |-> found.user])

\* a login that signs its token with a secret of its own
loginOutcome_otherSecret(found, args) ==
    IF ~found.found THEN Err("NoSuchUser")
    ELSE IF ~BcryptCompare(args.password, found.user.password)
         THEN Err("InvalidCredentials")
    ELSE Ok([token |-> JwtSign([userId |-> found.user.id], OtherSecret),
             user |-> found.user])

loginOutcome(found, args) ==
    IF ~found.found THEN Err("NoSuchUser")
    ELSE IF ~BcryptCompare(args.password, found.user.password)
         THEN Err("InvalidCredentials")
    ELSE Ok([token |-> JwtSign([userId |-> found.user.id], APP_SECRET),
             user |-> found.user])

\* prisma.user({ email }) applied, bcrypt.compare, jwt.sign
user(r) ==
    /\ reqs[r].pc = "user"
    /\ reqs' = [reqs EXCEPT ![r] =
                  Settling(@, loginOutcome(UserByEmail(users, reqs[r].args.email),
                                           reqs[r].args))]
    /\ UNCHANGED <<users, links, votes, linkSeq, conns, inbox, published, tokens, probe>>

\* prisma.deleteLink applied by a store that answers a missing id with null
deleteLinkApplied_silent(r) ==
    /\ reqs[r].pc = "deleteLink"
    /\ LET hits == {i \in 1..Len(links) : links[i].id = reqs[r].args.id}
       IN  IF hits = {}
           THEN /\ reqs' = [reqs EXCEPT ![r] = Settling(@, Ok(NoValue))]
                /\ UNCHANGED links
           ELSE IF \E i \in 1..Len(votes) : votes[i].link = reqs[r].args.id
           THEN /\ reqs' = [reqs EXCEPT ![r] = Settling(@, Err("StorageError"))]
                /\ UNCHANGED links
           ELSE LET i == CHOOSE i \in hits : TRUE
                IN  /\ links' = Select(links, (1..Len(links)) \ {i})
                    /\ reqs' = [reqs EXCEPT ![r] = Settling(@, Ok(links[i]))]
    /\ UNCHANGED <<users, votes, linkSeq, conns, inbox, published, tokens, probe>>

\* deleteLink, up to the await of getUserId ("authenticate token")
deleteLink(r, args, hdr) ==
    /\ Invoke(r, Protected("deleteLink", args, hdr, "deleteLink"))

\* prisma.deleteLink applied by a store that deletes the Link and leaves
\* its Votes
deleteLinkApplied_leaveVotes(r) ==
    /\ reqs[r].pc = "deleteLink"
    /\ LET hits == {i \in 1..Len(links) : links[i].id = reqs[r].args.id}
       IN  IF hits = {}
           THEN /\ reqs' = [reqs EXCEPT ![r] = Settling(@, Err("NotFound"))]
                /\ UNCHANGED links
           ELSE LET i == CHOOSE i \in hits : TRUE
                IN  /\ links' = Select(links, (1..Len(links)) \ {i})
                    /\ reqs' = [reqs EXCEPT ![r] = Settling(@, Ok(links[i]))]
    /\ UNCHANGED <<users, votes, linkSeq, conns, inbox, published, tokens, probe>>

\* prisma.deleteLink applied by a store that deletes the Votes of the Link
\* along with it
deleteLinkApplied_cascade(r) ==
    /\ reqs[r].pc = "deleteLink"
    /\ LET hits == {i \in 1..Len(links) : links[i].id = reqs[r].args.id}
       IN  IF hits = {}
           THEN /\ reqs' = [reqs EXCEPT ![r] = Settling(@, Err("NotFound"))]
                /\ UNCHANGED <<links, votes>>
           ELSE LET i == CHOOSE i \in hits : TRUE
                IN  /\ links' = Select(links, (1..Len(links)) \ {i})
                    /\ votes' = Select(votes, {j \in 1..Len(votes) :
                                                votes[j].link # reqs[r].args.id})
                    /\ reqs' = [reqs EXCEPT ![r] = Settling(@, Ok(links[i]))]
    /\ UNCHANGED <<users, linkSeq, conns, inbox, published, tokens, probe>>

\* prisma.deleteLink({ where: { id } }) applied.  The store fails the call
\* when no Link has the id, and when a Vote still requires the Link
\* (Vote.link: Link!).
deleteLinkApplied(r) ==
    /\ reqs[r].pc = "deleteLink"
    /\ LET hits == {i \in 1..Len(links) : links[i].id = reqs[r].args.id}
       IN  IF hits = {}
           THEN /\ reqs' = [reqs EXCEPT ![r] = Settling(@, Err("NotFound"))]
                /\ UNCHANGED links
           ELSE IF \E i \in 1..Len(votes) : votes[i].link = reqs[r].args.id
           THEN /\ reqs' = [reqs EXCEPT ![r] = Settling(@, Err("StorageError"))]
                /\ UNCHANGED links
           ELSE LET i == CHOOSE i \in hits : TRUE
                IN  /\ links' = Select(links, (1..Len(links)) \ {i})
                    /\ reqs' = [reqs EXCEPT ![r] = Settling(@, Ok(links[i]))]
    /\ UNCHANGED <<users, votes, linkSeq, conns, inbox, published, tokens, probe>>

\* prisma.updateLink applied by a store whose subscriptions also fire on
\* updates
updateLinkApplied_notifies(r) ==
    /\ reqs[r].pc = "updateLink"
    /\ LET hits == {i \in 1..Len(links) : links[i].id = reqs[r].args.id}
       IN  IF hits = {}
           THEN /\ reqs' = [reqs EXCEPT ![r] = Settling(@, Err("NotFound"))]
                /\ UNCHANGED <<links, inbox, published>>
           ELSE LET i == CHOOSE i \in hits : TRUE
                    link == [links[i] EXCEPT !.url = reqs[r].args.url,
                                             !.description = reqs[r].args.description]
                IN  /\ links' = [links EXCEPT ![i] = link]
                    /\ Publish("link", link)
                    /\ reqs' = [reqs EXCEPT ![r] = Settling(@, Ok(link))]
    /\ UNCHANGED <<users, votes, linkSeq, conns, tokens, probe>>

\* updateLink, up to the await of getUserId ("authenticate token")
updateLink(r, args, hdr) ==
    /\ Invoke(r, Protected("updateLink", args, hdr, "updateLink"))

\* prisma.updateLink({ data: { url, description }, where: { id } }) applied
updateLinkApplied(r) ==
    /\ reqs[r].pc = "updateLink"
    /\ LET hits == {i \in 1..Len(links) : links[i].id = reqs[r].args.id}
       IN  IF hits = {}
           THEN /\ reqs' = [reqs EXCEPT ![r] = Settling(@, Err("NotFound"))]
                /\ UNCHANGED links
           ELSE LET i == CHOOSE i \in hits : TRUE
                    link == [links[i] EXCEPT !.url = reqs[r].args.url,
                                             !.description = reqs[r].args.description]
                IN  /\ links' = [links EXCEPT ![i] = link]
                    /\ reqs' = [reqs EXCEPT ![r] = Settling(@, Ok(link))]
    /\ UNCHANGED <<users, votes, linkSeq, conns, inbox, published, tokens, probe>>

\* vote going to createVote without the existence check
vote_skipCheck(r, args, hdr) ==
    /\ Invoke(r, Protected("vote", args, hdr, "createVote"))

\* vote, up to the await of getUserId
vote(r, args, hdr) ==
    /\ Invoke(r, Protected("vote", args, hdr, "existsVote"))

\* the resolver once prisma.$exists.vote has answered: it throws
\* 'Already voted for link' or goes on to prisma.createVote
voteChecked_unchecked(q, linkExists) == [q EXCEPT !.pc = "createVote"]

voteChecked(q, linkExists) ==
    IF linkExists THEN Settling(q, Err("DuplicateVote"))
    ELSE [q EXCEPT !.pc = "createVote"]

\* prisma.$exists.vote({ user: { id: userId }, link: { id: args.linkId } }) applied
existsVote(r) ==
    /\ reqs[r].pc = "existsVote"
    /\ reqs' = [reqs EXCEPT ![r] =
                  voteChecked(@, ExistsVote(votes, reqs[r].userId, reqs[r].args.linkId))]
    /\ UNCHANGED <<users, links, votes, linkSeq, conns, inbox, published, tokens, probe>>

\* prisma.createVote({ user: { connect }, link: { connect } }) applied: the
\* Vote is stored and its CREATED event emitted.  Connecting a User or a
\* Link that does not exist fails the call.
createVote_checkAfter(r) ==
    /\ reqs[r].pc = "createVote"
    /\ IF /\ reqs[r].userId \in UserIdsOf(users)
          /\ reqs[r].args.linkId \in LinkIdsOf(links)
       THEN LET v == [id |-> Len(votes) + 1,
                      user |-> reqs[r].userId,
                      link |-> reqs[r].args.linkId]
            IN  /\ votes' = Append(votes, v)
                /\ Publish("vote", v)
                /\ reqs' = [reqs EXCEPT ![r] = Settling(@,
                              IF ExistsVote(votes, v.user, v.link)
                              THEN Err("DuplicateVote") ELSE Ok(v))]
       ELSE /\ reqs' = [reqs EXCEPT ![r] = Settling(@, Err("StorageError"))]
            /\ UNCHANGED <<votes, inbox, published>>
    /\ UNCHANGED <<users, links, linkSeq, conns, tokens, probe>>

createVote_unique(r) ==
    /\ reqs[r].pc = "createVote"
    /\ IF /\ reqs[r].userId \in UserIdsOf(users)
          /\ reqs[r].args.linkId \in LinkIdsOf(links)
          /\ ~ExistsVote(votes, reqs[r].userId, reqs[r].args.linkId)
       THEN LET v == [id |-> Len(votes) + 1,
                      user |-> reqs[r].userId,
                      link |-> reqs[r].args.linkId]
            IN  /\ votes' = Append(votes, v)
                /\ Publish("vote", v)
                /\ reqs' = [reqs EXCEPT ![r] = Settling(@, Ok(v))]
       ELSE /\ reqs' = [reqs EXCEPT ![r] = Settling(@, Err("DuplicateVote"))]
            /\ UNCHANGED <<votes, inbox, published>>
    /\ UNCHANGED <<users, links, linkSeq, conns, tokens, probe>>

createVote(r) ==
    /\ reqs[r].pc = "createVote"
    /\ IF /\ reqs[r].userId \in UserIdsOf(users)
          /\ reqs[r].args.linkId \in LinkIdsOf(links)
       THEN LET v == [id |-> Len(votes) + 1,
                      user |-> reqs[r].userId,
                      link |-> reqs[r].args.linkId]
            IN  /\ votes' = Append(votes, v)
                /\ Publish("vote", v)
                /\ reqs' = [reqs EXCEPT ![r] = Settling(@, Ok(v))]
       ELSE /\ reqs' = [reqs EXCEPT ![r] = Settling(@, Err("StorageError"))]
            /\ UNCHANGED <<votes, inbox, published>>
    /\ UNCHANGED <<users, links, linkSeq, conns, tokens, probe>>

\* the resolver's promise settles: the caller has the outcome, and with an
\* AuthPayload the token in it
Settle(r) ==
    /\ reqs[r].pc = "settle"
    /\ reqs' = [reqs EXCEPT ![r].pc = "done"]
    /\ tokens' = IF reqs[r].op \in {"signup", "login"} /\ reqs[r].res.kind = "ok"
                 THEN tokens \cup {reqs[r].res.value.token}
                 ELSE tokens
    /\ UNCHANGED <<users, links, votes, linkSeq, conns, inbox, published, probe>>

----------------------------------------------------------------------------
(* resolvers/Link.js                                                       *)

\* Link.postedBy: prisma.link({ id: parent.id }).postedBy(): the Link is
\* fetched again by id and its relation followed; null when either is absent
LinkPostedBy(ls, us, parent) ==
    LET hits == {i \in 1..Len(ls) : ls[i].id = parent.id}
        owners == {j \in 1..Len(us) : \E i \in hits : us[j].id = ls[i].postedBy}
    IN  IF owners = {} THEN [found |-> FALSE, user |-> [id |-> 0]]
        ELSE [found |-> TRUE, user |-> us[CHOOSE j \in owners : TRUE]]

----------------------------------------------------------------------------
(* index.js with its resolvers inline (server/src/index.js): the context   *)
(* is { prisma } alone, and Mutation.post creates the Link straight away.  *)

\* Mutation.post, up to the facade call: no header is read
indexPost(r, args, hdr) ==
    /\ Invoke(r, Awaiting("post", args, hdr, 0, NoValue, "indexCreateLink"))

\* prisma.createLink({ url, description }) applied: a Link with no postedBy
indexCreateLink(r) ==
    /\ reqs[r].pc = "indexCreateLink"
    /\ LET link == [id |-> linkSeq + 1,
                    url |-> reqs[r].args.url,
                    description |-> reqs[r].args.description,
                    postedBy |-> 0]
       IN  /\ links' = Append(links, link)
           /\ linkSeq' = linkSeq + 1
           /\ Publish("link", link)
           /\ reqs' = [reqs EXCEPT ![r] = Settling(@, Ok(link))]
    /\ UNCHANGED <<users, votes, conns, tokens, probe>>

----------------------------------------------------------------------------
(* resolvers/Query.js                                                      *)

\* an optional Int argument: undefined, or a number
NoInt == [given |-> FALSE, n |-> 0]
SomeInt(n) == [given |-> TRUE, n |-> n]

\* an optional String argument
NoString == [given |-> FALSE, text |-> <<>>]
SomeString(text) == [given |-> TRUE, text |-> text]

\* the where-object {}
EmptyWhere == [f \in {} |-> TRUE]

\* const where = args.filter ? { OR: [{ description_contains }, { url_contains }] } : {}
\* (an empty string is falsy, like an absent filter)
feedWhere_AND(filter) ==
    IF filter.given /\ filter.text # <<>>
    THEN [AND |-> <<[field |-> "description", value |-> filter.text],
                    [field |-> "url", value |-> filter.text]>>]
    ELSE EmptyWhere

feedWhere(filter) ==
    IF filter.given /\ filter.text # <<>>
    THEN [OR |-> <<[field |-> "description", value |-> filter.text],
                   [field |-> "url", value |-> filter.text]>>]
    ELSE EmptyWhere

\* the Links a where-object selects, in creation order
Matching(ls, where) == Select(ls, {i \in 1..Len(ls) : EvalWhere(where, ls[i])})

Reverse(s) == [i \in 1..Len(s) |-> s[Len(s) + 1 - i]]

Min(a, b) == IF a <= b THEN a ELSE b

\* prisma.links({ where, skip, first, orderBy }) applied: select, order,
\* drop skip elements, keep at most first
LinksQuery(ls, q) ==
    LET m == Matching(ls, q.where)
        o == IF q.orderBy = "createdAt_DESC" THEN Reverse(m) ELSE m
        d == IF q.skip.given THEN SubSeq(o, q.skip.n + 1, Len(o)) ELSE o
    IN  IF q.first.given THEN SubSeq(d, 1, Min(q.first.n, Len(d))) ELSE d

\* prisma.linksConnection(q).aggregate().count() applied
LinksCount(ls, q) == Len(LinksQuery(ls, q))

\* the query objects feed builds from its arguments; a property it does not
\* set is undefined
feedLinksQuery(args) ==
    [where |-> feedWhere(args.filter), skip |-> args.skip, first |-> args.first,
     orderBy |-> args.orderBy]

feedCountQuery_paged(args) ==
    [where |-> feedWhere(args.filter), skip |-> args.skip, first |-> args.first,
     orderBy |-> "undefined"]

feedCountQuery(args) ==
    [where |-> feedWhere(args.filter), skip |-> NoInt, first |-> NoInt,
     orderBy |-> "undefined"]

\* feed, up to the await of the count: prisma.links(...) only builds the
\* lazy request; the count is the first call the store sees.  The request's
\* Authorization header is in the context and is not read.
feed_protected(r, args, hdr) ==
    /\ Invoke(r, Protected("feed", args, hdr, "linksConnection"))

feed(r, args, hdr) ==
    /\ Invoke(r, Awaiting("feed", args, hdr, 0, [count |-> 0], "linksConnection"))

linksConnection(r) ==
    /\ reqs[r].pc = "linksConnection"
    /\ reqs' = [reqs EXCEPT ![r].pc = "links",
                            ![r].local = [count |-> LinksCount(links, feedCountQuery(reqs[r].args))]]
    /\ UNCHANGED <<users, links, votes, linkSeq, conns, inbox, published, tokens, probe>>

\* the links request is executed when the returned { links, count } is resolved
linksApplied(r) ==
    /\ reqs[r].pc = "links"
    /\ reqs' = [reqs EXCEPT ![r] =
                  Settling(@, Ok([links |-> LinksQuery(links, feedLinksQuery(reqs[r].args)),
                                  count |-> reqs[r].local.count]))]
    /\ UNCHANGED <<users, links, votes, linkSeq, conns, inbox, published, tokens, probe>>

\* null, as a resolver's result
Null == NoValue

\* Query.link on the server whose Query resolvers are { feed }: no resolver
\* is registered for the field.  Where the schema declares the field, the
\* default resolver reads it off the root value, which is undefined, and the
\* result is null; where it does not, the operation is rejected in validation.
QueryLink(r, args, declared) ==
    /\ Invoke(r, Settling(Awaiting("link", args, NoHeader, 0, NoValue, "none"),
                          IF declared THEN Ok(Null) ELSE Err("ValidationError")))

----------------------------------------------------------------------------
(* The early server: index.js with the links in a list in memory.  Its     *)
(* resolvers are synchronous, so a call runs from start to end in one      *)
(* step.  The id `link-${n}` of a Link is the number n.                    *)

\* let idCount: the module's counter of the ids handed out
idCount == linkSeq

\* a Link of the list: { id, url, description }
MemLink(id, url, description) == [id |-> id, url |-> url, description |-> description]

\* links.find(link => link.id === id): the position of the first element
\* with the id, 0 when find returns undefined
Find(ls, id) ==
    LET hits == {i \in 1..Len(ls) : ls[i].id = id}
    IN  IF hits = {} THEN 0 ELSE CHOOSE i \in hits : \A j \in hits : i <= j

\* links.indexOf(link), as a JavaScript index: that of the element find
\* returned, -1 for undefined, which is not in the list
IndexOf(ls, found) == found - 1

\* Array.prototype.splice(start, deleteCount): a negative start counts back
\* from the end of the array
Splice(s, start, deleteCount) ==
    LET from == IF start < 0 THEN Max(Len(s) + start, 0) ELSE Min(start, Len(s))
    IN  Select(s, {i \in 1..Len(s) : i < from + 1 \/ i > from + deleteCount})

\* a call that has returned, or thrown
Returned(op, args, res) ==
    [Awaiting(op, args, NoHeader, 0, NoValue, "none") EXCEPT !.pc = "done", !.res = res]

\* a post that names the new Link after the length of the list
inMemoryPost_byLength(r, args) ==
    /\ Invocable(r)
    /\ LET link == MemLink(Len(links), args.url, args.description)
       IN  /\ links' = Append(links, link)
           /\ linkSeq' = idCount + 1
           /\ reqs' = [reqs EXCEPT ![r] = Returned("post", args, Ok(link))]
    /\ UNCHANGED <<users, votes, conns, inbox, published, tokens, probe>>

\* Mutation.post: id `link-${idCount++}`, links.push(link), return link
inMemoryPost(r, args) ==
    /\ Invocable(r)
    /\ LET link == MemLink(idCount, args.url, args.description)
       IN  /\ links' = Append(links, link)
           /\ linkSeq' = idCount + 1
           /\ reqs' = [reqs EXCEPT ![r] = Returned("post", args, Ok(link))]
    /\ UNCHANGED <<users, votes, conns, inbox, published, tokens, probe>>

\* Mutation.updateLink: the found Link is assigned its new url and
\* description; with no Link found, the assignment to undefined throws
inMemoryUpdateLink(r, args) ==
    /\ Invocable(r)
    /\ LET found == Find(links, args.id)
       IN  IF found = 0
           THEN /\ reqs' = [reqs EXCEPT ![r] = Returned("updateLink", args, Err("TypeError"))]
                /\ UNCHANGED links
           ELSE LET link == [links[found] EXCEPT !.url = args.url,
                                                 !.description = args.description]
                IN  /\ links' = [links EXCEPT ![found] = link]
                    /\ reqs' = [reqs EXCEPT ![r] = Returned("updateLink", args, Ok(link))]
    /\ UNCHANGED <<users, votes, linkSeq, conns, inbox, published, tokens, probe>>

\* Mutation.deleteLink: find, indexOf, links.splice(index, 1), return link
inMemoryDeleteLink(r, args) ==
    /\ Invocable(r)
    /\ LET found == Find(links, args.id)
           index == IndexOf(links, found)
       IN  /\ links' = Splice(links, index, 1)
           /\ reqs' = [reqs EXCEPT ![r] =
                         Returned("deleteLink", args,
                                  IF found = 0 THEN Ok(Null) ELSE Ok(links[found]))]
    /\ UNCHANGED <<users, votes, linkSeq, conns, inbox, published, tokens, probe>>

----------------------------------------------------------------------------
(* The Identity Extractor on its own: one header, one call.                *)

NoProbe == [hdr |-> NoHeader, ran |-> FALSE, out |-> Thrown("none")]

Extract ==
    /\ ~probe.ran
    /\ probe' = [probe EXCEPT !.ran = TRUE, !.out = getUserId(probe.hdr)]
    /\ UNCHANGED <<users, links, votes, linkSeq, reqs, conns, inbox, published, tokens>>

----------------------------------------------------------------------------
(* Initial states.                                                         *)

Alice == [id |-> 1, email |-> "alice@x", name |-> "Alice",
          password |-> BcryptHash("pw1", "salt1")]

AliceToken == JwtSign([userId |-> 1], APP_SECRET)

\* a Link as post stores it
Link(id, url, description, postedBy) ==
    [id |-> id, url |-> url, description |-> description, postedBy |-> postedBy]

Quiet ==
    /\ reqs = [r \in ReqIds |-> Idle]
    /\ conns = [c \in ConnIds |-> NoConn]
    /\ inbox = [c \in ConnIds |-> <<>>]
    /\ published = <<>>
    /\ votes = <<>>

\* the server started on the database of an earlier run: Alice has signed
\* up, holds her token, and has posted one Link
Init ==
    /\ Quiet
    /\ probe = NoProbe
    /\ users = <<Alice>>
    /\ links = <<Link(1, <<"g">>, <<"G">>, 1)>>
    /\ linkSeq = 1
    /\ tokens = {AliceToken}

Bob == [id |-> 2, email |-> "bob@x", name |-> "Bob",
        password |-> BcryptHash("pw2", "salt2")]

BobToken == JwtSign([userId |-> 2], APP_SECRET)

\* the server started on a database with two Users, a Link of Alice, and a
\* Link that was created before Links had a poster
InitOwner ==
    /\ Quiet
    /\ probe = NoProbe
    /\ users = <<Alice, Bob>>
    /\ links = <<Link(1, <<"g">>, <<"G">>, 1), Link(2, <<"g">>, <<"G">>, 0)>>
    /\ linkSeq = 2
    /\ tokens = {AliceToken, BobToken}

\* a Vote as vote stores it
Vote(id, userId, linkId) == [id |-> id, user |-> userId, link |-> linkId]

\* the database of InitOwner after Alice has voted for Link 1
InitVotes ==
    /\ reqs = [r \in ReqIds |-> Idle]
    /\ conns = [c \in ConnIds |-> NoConn]
    /\ inbox = [c \in ConnIds |-> <<>>]
    /\ published = <<>>
    /\ votes = <<Vote(1, 1, 1)>>
    /\ probe = NoProbe
    /\ users = <<Alice, Bob>>
    /\ links = <<Link(1, <<"g">>, <<"G">>, 1), Link(2, <<"g">>, <<"G">>, 0)>>
    /\ linkSeq = 2
    /\ tokens = {AliceToken, BobToken}

\* the server started on an empty database, or on that of the earlier run
InitSerial ==
    /\ Quiet
    /\ probe = NoProbe
    /\ \E seeded \in BOOLEAN :
         /\ users = IF seeded THEN <<Alice>> ELSE <<>>
         /\ links = IF seeded THEN <<Link(1, <<"g">>, <<"G">>, 1)>> ELSE <<>>
         /\ linkSeq = Len(links)
         /\ tokens = IF seeded THEN {AliceToken} ELSE {}

\* the stores a feed query is run against: up to MaxFeedLinks Links of Alice
FeedStores ==
    UNION {[1..n -> Texts \X Texts] : n \in 0..MaxFeedLinks}

InitFeed ==
    /\ Quiet
    /\ probe = NoProbe
    /\ users = <<Alice>>
    /\ tokens = {AliceToken}
    /\ \E st \in FeedStores :
         links = [i \in 1..Len(st) |-> Link(i, st[i][1], st[i][2], 1)]
    /\ linkSeq = Len(links)

\* the early server after start: let links = [{ id: 'link-0', ... }],
\* idCount = links.length
InitMemory ==
    /\ Quiet
    /\ probe = NoProbe
    /\ users = <<>>
    /\ tokens = {}
    /\ links = <<MemLink(0, <<"g">>, <<"G">>)>>
    /\ linkSeq = Len(links)

\* the header texts given to the Identity Extractor
Chunks ==
    {Bearer, Lit("Basic "), Lit("x"),
     AliceToken, JwtSign([userId |-> 2], APP_SECRET), JwtSign([userId |-> 1], OtherSecret)}

ProbeHeaders ==
    {NoHeader} \cup {Header(t) : t \in UNION {[1..n -> Chunks] : n \in 0..MaxHdrLen}}

InitAuth ==
    /\ Quiet
    /\ users = <<>>
    /\ links = <<>>
    /\ linkSeq = 0
    /\ tokens = {}
    /\ \E h \in ProbeHeaders : probe = [NoProbe EXCEPT !.hdr = h]

----------------------------------------------------------------------------
(* Next-state relations.                                                   *)

PostArgs == [url : {<<"g">>}, description : {<<"G">>, <<"G", "g">>}]
BusPostArgs == [url : {<<"g">>}, description : {<<"G", "g">>}]
SignupArgs == [email : Emails, password : Passwords, name : Names]
LoginArgs == [email : Emails, password : Passwords]
DeleteArgs == [id : NamedLinkIds]
UpdateArgs == [id : NamedLinkIds, url : {<<"G">>}, description : {<<"g">>}]
VoteArgs == [linkId : NamedLinkIds]

Offsets == {0, 1, 2}
OptInts == {NoInt} \cup {SomeInt(n) : n \in Offsets}
Filters == {NoString} \cup {SomeString(t) : t \in {<<>>, <<"g">>, <<"G">>, <<"g", "G">>}}
Orders == {"undefined", "createdAt_ASC", "createdAt_DESC"}
FeedArgs == [filter : Filters, skip : OptInts, first : OptInts, orderBy : Orders]

\* a protected mutation arrives at request r with one of the headers hs
ArriveProtected(r, hs) ==
    \/ \E a \in PostArgs, h \in hs : post(r, a, h)
    \/ \E a \in DeleteArgs, h \in hs : deleteLink(r, a, h)
    \/ \E a \in UpdateArgs, h \in hs : updateLink(r, a, h)
    \/ \E a \in VoteArgs, h \in hs : vote(r, a, h)

\* the store applies the pending call of a protected mutation, or the
\* promise of request r settles
AdvanceProtected(r) ==
    \/ createLink(r)
    \/ deleteLinkApplied(r)
    \/ updateLinkApplied(r)
    \/ existsVote(r)
    \/ createVote(r)
    \/ Settle(r)

\* independent protected mutations, executing concurrently
Next ==
    \E r \in 1..MaxReq : ArriveProtected(r, Headers) \/ AdvanceProtected(r)

Spec == Init /\ [][Next]_vars

\* no request is between its invocation and the settling of its promise
NoneInFlight == \A q \in ReqIds : reqs[q].pc \in {"idle", "done"}

\* signup, login and vote one after another: each settles before the next
\* arrives
ArriveSerial(r) ==
    /\ NoneInFlight
    /\ \/ \E a \in SignupArgs, s \in Salts : signup(r, a, s)
       \/ \E a \in LoginArgs : login(r, a)
       \/ \E a \in VoteArgs, h \in Headers : vote(r, a, h)

AdvanceSerial(r) ==
    \/ createUser(r)
    \/ user(r)
    \/ existsVote(r)
    \/ createVote(r)
    \/ Settle(r)

NextSerial ==
    \E r \in 1..MaxSerial : ArriveSerial(r) \/ AdvanceSerial(r)

SpecSerial == InitSerial /\ [][NextSerial]_vars

\* signup and login executing concurrently
ArriveAccounts(r) ==
    \/ \E a \in SignupArgs, s \in Salts : signup(r, a, s)
    \/ \E a \in LoginArgs : login(r, a)

AdvanceAccounts(r) ==
    \/ createUser(r)
    \/ user(r)
    \/ Settle(r)

NextAccounts ==
    \E r \in 1..MaxReq : ArriveAccounts(r) \/ AdvanceAccounts(r)

SpecAccounts == Init /\ [][NextAccounts]_vars

\* the server of index.js with the inline resolvers: posts executing
\* concurrently
NextIndex ==
    \E r \in 1..MaxReq :
        \/ \E a \in PostArgs, h \in Headers : indexPost(r, a, h)
        \/ indexCreateLink(r)
        \/ Settle(r)

SpecIndex == Init /\ [][NextIndex]_vars

\* the callers that hold a token
TokenHeaders == {Header(<<Bearer, t>>) : t \in tokens}

\* updateLink, deleteLink and vote of two Users executing concurrently
ArriveOwner(r) ==
    \/ \E a \in DeleteArgs, h \in TokenHeaders : deleteLink(r, a, h)
    \/ \E a \in UpdateArgs, h \in TokenHeaders : updateLink(r, a, h)
    \/ \E a \in VoteArgs, h \in TokenHeaders : vote(r, a, h)

AdvanceOwner(r) ==
    \/ deleteLinkApplied(r)
    \/ updateLinkApplied(r)
    \/ existsVote(r)
    \/ createVote(r)
    \/ Settle(r)

NextOwner ==
    \E r \in 1..MaxReq : ArriveOwner(r) \/ AdvanceOwner(r)

SpecOwner == InitOwner /\ [][NextOwner]_vars

\* votes of two Users executing concurrently on a store that holds a Vote
NextVotes ==
    \E r \in 1..MaxReq :
        \/ \E a \in VoteArgs, h \in TokenHeaders : vote(r, a, h)
        \/ existsVote(r)
        \/ createVote(r)
        \/ Settle(r)

SpecVotes == InitVotes /\ [][NextVotes]_vars

\* posts executing while subscription connections open, are closed by their
\* holders, and are lost
NextTeardown ==
    \/ \E r \in 1..MaxBusReq :
         \/ \E a \in BusPostArgs, h \in TokenHeaders : post(r, a, h)
         \/ createLink(r)
         \/ Settle(r)
    \/ \E c \in 1..MaxConn :
         \/ newLinkSubscribe(c)
         \/ newVoteSubscribe(c)
         \/ Unsubscribe(c)
         \/ Disconnect(c)

SpecTeardown == Init /\ [][NextTeardown]_vars

\* several subscription connections subscribing, unsubscribing and being
\* lost, in any order with the steps of posts that are sent one after another
NextRegistry ==
    \/ \E r \in 1..MaxBusReq :
         \/ NoneInFlight /\ \E a \in BusPostArgs, h \in TokenHeaders : post(r, a, h)
         \/ createLink(r)
         \/ Settle(r)
    \/ \E c \in 1..MaxListeners :
         \/ newLinkSubscribe(c)
         \/ newVoteSubscribe(c)
         \/ Unsubscribe(c)
         \/ Disconnect(c)

SpecRegistry == Init /\ [][NextRegistry]_vars

\* post and vote executing concurrently with the subscription connections
\* coming and going
ArriveBus(r) ==
    \/ \E a \in BusPostArgs, h \in PlainHeaders : post(r, a, h)
    \/ \E a \in VoteArgs, h \in PlainHeaders : vote(r, a, h)

AdvanceBus(r) ==
    \/ createLink(r)
    \/ existsVote(r)
    \/ createVote(r)
    \/ Settle(r)

NextBus ==
    \/ \E r \in 1..MaxBusReq : ArriveBus(r) \/ AdvanceBus(r)
    \/ \E c \in 1..MaxConn : newLinkSubscribe(c) \/ newVoteSubscribe(c) \/ Unsubscribe(c)

SpecBus == Init /\ [][NextBus]_vars

\* one feed query against a fixed store
NextFeed ==
    \/ \E a \in FeedArgs : feed(1, a, NoHeader)
    \/ linksConnection(1)
    \/ linksApplied(1)
    \/ Settle(1)

SpecFeed == InitFeed /\ [][NextFeed]_vars

\* the feed queries of SpecQuery
QueryFeedArgs ==
    [filter : {NoString, SomeString(<<"g", "G">>)}, skip : {NoInt},
     first : {NoInt, SomeInt(1)}, orderBy : {"undefined"}]

LinkArgs == [id : NamedLinkIds]

\* the queries, from callers with and without a token, executing
\* concurrently with posts
ArriveQuery(r) ==
    \/ \E a \in QueryFeedArgs, h \in Headers : feed(r, a, h)
    \/ \E a \in LinkArgs, declared \in BOOLEAN : QueryLink(r, a, declared)
    \/ \E a \in BusPostArgs, h \in TokenHeaders : post(r, a, h)

AdvanceQuery(r) ==
    \/ linksConnection(r)
    \/ linksApplied(r)
    \/ createLink(r)
    \/ Settle(r)

NextQuery ==
    \E r \in 1..MaxReq : ArriveQuery(r) \/ AdvanceQuery(r)

SpecQuery == Init /\ [][NextQuery]_vars

\* every operation of the core, from callers with and without a token,
\* executing concurrently
ArriveCore(r) ==
    \/ ArriveProtected(r, PlainHeaders)
    \/ ArriveAccounts(r)
    \/ \E a \in QueryFeedArgs : feed(r, a, NoHeader)
    \/ \E a \in LinkArgs, declared \in BOOLEAN : QueryLink(r, a, declared)

AdvanceCore(r) ==
    \/ AdvanceProtected(r)
    \/ createUser(r)
    \/ user(r)
    \/ linksConnection(r)
    \/ linksApplied(r)

NextCore ==
    \E r \in 1..MaxReq : ArriveCore(r) \/ AdvanceCore(r)

SpecCore == Init /\ [][NextCore]_vars

\* the ids the clients of the early server name: those handed out so far,
\* and the next one
MemLinkIds == 0..idCount

\* the calls of the early server, one after another
NextMemory ==
    \E r \in 1..MaxSerial :
        \/ \E a \in PostArgs : inMemoryPost(r, a)
        \/ \E a \in [id : MemLinkIds, url : {<<"G">>}, description : {<<"g">>}] :
              inMemoryUpdateLink(r, a)
        \/ \E a \in [id : MemLinkIds] : inMemoryDeleteLink(r, a)

SpecMemory == InitMemory /\ [][NextMemory]_vars

\* the operations of the core, sent one after another to a server whose
\* newLink and newVote connections subscribed before the first of them
ArriveRouting(r) ==
    \/ \E a \in BusPostArgs, h \in TokenHeaders : post(r, a, h)
    \/ \E a \in DeleteArgs, h \in TokenHeaders : deleteLink(r, a, h)
    \/ \E a \in UpdateArgs, h \in TokenHeaders : updateLink(r, a, h)
    \/ \E a \in VoteArgs, h \in TokenHeaders : vote(r, a, h)
    \/ \E a \in [email : {"bob@x"}, password : {"pw2"}, name : Names] :
          signup(r, a, "salt2")
    \/ \E a \in [email : {"alice@x"}, password : Passwords] : login(r, a)
    \/ \E a \in QueryFeedArgs : feed(r, a, NoHeader)

NextRouting ==
    \/ \E r \in 1..MaxReq : (NoneInFlight /\ ArriveRouting(r)) \/ AdvanceCore(r)
    \/ \E c \in 1..MaxListeners :
         /\ \A r \in ReqIds : reqs[r].pc = "idle"
         /\ newLinkSubscribe(c) \/ newVoteSubscribe(c)

SpecRouting == Init /\ [][NextRouting]_vars

\* one call of the Identity Extractor
NextAuth == Extract

SpecAuth == InitAuth /\ [][NextAuth]_vars

----------------------------------------------------------------------------
(* Properties.                                                             *)

ProtectedOps == {"post", "updateLink", "deleteLink", "vote"}

\* the request has been invoked
Invoked(r) == reqs[r].pc # "idle"

\* the promise of the request has settled
Done(r) == reqs[r].pc = "done"

\* the outcome of the request is fixed (its promise has settled or is about to)
Decided(r) == reqs[r].pc \in {"settle", "done"}

Succeeded(r) == Decided(r) /\ reqs[r].res.kind = "ok"

\* the request r takes the step
Steps(r) == reqs'[r] # reqs[r]

CountIn(s, x) == Cardinality({i \in 1..Len(s) : s[i] = x})

\* no Authorization header, or a token that fails verification
BadCredential(hdr) ==
    \/ ~hdr.present
    \/ ~JwtVerify(Replace(hdr.text, Bearer), APP_SECRET).ok

\* C1, first half: a protected mutation invoked with no Authorization header
\* or with a token that fails verification fails with NotAuthenticated.
AuthGateRejects ==
    \A r \in ReqIds :
        (Invoked(r) /\ reqs[r].op \in ProtectedOps /\ BadCredential(reqs[r].hdr))
            => (Decided(r) /\ reqs[r].res.kind = "NotAuthenticated")

\* C1, second half: no step of a request that fails with NotAuthenticated
\* changes the Users, Links or Votes of the store or publishes an event.
AuthGateNoEffect ==
    \A r \in ReqIds :
        (Steps(r) /\ reqs'[r].res.kind = "NotAuthenticated")
            => UNCHANGED <<users, links, votes, linkSeq, published, inbox>>

\* C1: for each protected mutation (post, updateLink, deleteLink, vote), a
\* call with no Authorization header or with a token that fails verification
\* fails with NotAuthenticated, leaves Users, Links and Votes as they were and
\* publishes no link.created or vote.created event.
C1_AuthGate == [](AuthGateRejects) /\ [][AuthGateNoEffect]_vars

ForgedHeaders == {Header(<<Bearer, t>>) : t \in ForgedTokens}

\* C1 witness: all four protected mutations can be refused; here one without
\* a header and one with a forged token have both been refused, the store
\* still being the initial one.
C1_Witness ==
    \E r1, r2 \in ReqIds :
        /\ Done(r1) /\ reqs[r1].op = "deleteLink" /\ reqs[r1].hdr = NoHeader
        /\ reqs[r1].args.id = 1
        /\ reqs[r1].res.kind = "NotAuthenticated"
        /\ Done(r2) /\ reqs[r2].op = "vote" /\ reqs[r2].hdr \in ForgedHeaders
        /\ reqs[r2].res.kind = "NotAuthenticated"
        /\ Len(links) = 1 /\ votes = <<>> /\ published = <<>>

\* the (user, link) pairs that can occur
PairUsers == 1..(Len(users) + 1)
PairLinks == 1..(linkSeq + 1)

\* C2: in every reachable state there is at most one Vote record for each
\* (User, Link) pair, whatever the interleaving of the vote operations.
C2_OneVotePerPair ==
    \A u \in PairUsers, l \in PairLinks : Cardinality(VotesOf(votes, u, l)) <= 1

\* an authenticated vote attempt of user u for link l
VoteAttempt(r, u, l) ==
    /\ Invoked(r) /\ reqs[r].op = "vote"
    /\ reqs[r].userId = u /\ u # 0
    /\ reqs[r].args.linkId = l

\* C3: when the vote attempts of one (user, link) pair run one after another,
\* exactly the first succeeds and creates a Vote, and every later attempt
\* fails with DuplicateVote and creates nothing.  (The Link exists; requests
\* are numbered in the order they run.)
C3_SerialVotes ==
    \A u \in PairUsers, l \in LinkIdsOf(links) :
        /\ \A r \in ReqIds :
             (VoteAttempt(r, u, l) /\ Done(r))
                => IF \E q \in ReqIds : q < r /\ VoteAttempt(q, u, l)
                   THEN reqs[r].res.kind = "DuplicateVote"
                   ELSE reqs[r].res.kind = "ok"
        /\ Cardinality(VotesOf(votes, u, l))
             = Cardinality({r \in ReqIds : VoteAttempt(r, u, l) /\ Succeeded(r)})

\* C3 witness: three attempts of Alice for Link 1 have run; the first
\* succeeded, the second and third failed with DuplicateVote; one Vote exists.
C3_Witness ==
    /\ \A r \in 1..MaxSerial : VoteAttempt(r, 1, 1) /\ Done(r)
    /\ reqs[1].res.kind = "ok"
    /\ \A r \in 2..MaxSerial : reqs[r].res.kind = "DuplicateVote"
    /\ Len(votes) = 1

\* C4, the step: once both checks of two attempts of the same pair have
\* answered 'absent', each create is applied without a further check: it
\* succeeds and adds a Vote for the pair, whatever the other attempt did.
VoteRaceStep ==
    \A r1, r2 \in ReqIds : \A u \in PairUsers, l \in LinkIdsOf(links) :
        (/\ r1 # r2
         /\ VoteAttempt(r1, u, l) /\ reqs[r1].pc = "createVote"
         /\ VoteAttempt(r2, u, l) /\ (reqs[r2].pc = "createVote" \/ Succeeded(r2))
         /\ Steps(r1))
            => /\ reqs'[r1].res.kind = "ok"
               /\ Cardinality(VotesOf(votes', u, l)) = Cardinality(VotesOf(votes, u, l)) + 1

\* C4, the outcome: two attempts of the same pair that both succeeded left
\* two Vote records for the pair.
VoteRaceOutcome ==
    \A r1, r2 \in ReqIds : \A u \in PairUsers, l \in PairLinks :
        (r1 # r2 /\ VoteAttempt(r1, u, l) /\ VoteAttempt(r2, u, l)
           /\ Succeeded(r1) /\ Succeeded(r2))
            => Cardinality(VotesOf(votes, u, l)) >= 2

\* C4: two concurrent vote attempts of the same user for the same link can
\* both have their existence check answered 'absent' before either create
\* is applied; then both succeed (neither gets DuplicateVote) and the store
\* ends with two Vote records for the pair.
C4_VoteRace == [](VoteRaceOutcome) /\ [][VoteRaceStep]_vars

\* C4 witness: the interleaving has happened: both attempts of Alice for
\* Link 1 have settled with success and the store holds two Votes of the pair.
C4_Witness ==
    /\ VoteAttempt(1, 1, 1) /\ Done(1) /\ reqs[1].res.kind = "ok"
    /\ VoteAttempt(2, 1, 1) /\ Done(2) /\ reqs[2].res.kind = "ok"
    /\ Cardinality(VotesOf(votes, 1, 1)) = 2

\* the header value starts with the "Bearer " prefix
HasBearerPrefix(hdr) == Len(hdr.text) >= 1 /\ hdr.text[1] = Bearer

\* C5: getUserId fails with NotAuthenticated when the Authorization header
\* is absent, when its value does not start with the "Bearer " prefix, and
\* when the token fails verification; in every other case it returns the
\* user id embedded in the token.
C5_IdentityExtractor ==
    probe.ran =>
        IF \/ ~probe.hdr.present
           \/ ~HasBearerPrefix(probe.hdr)
           \/ ~JwtVerify(Tail(probe.hdr.text), APP_SECRET).ok
        THEN ~probe.out.ok /\ probe.out.kind = "NotAuthenticated"
        ELSE /\ probe.out.ok
             /\ probe.out.userId = JwtVerify(Tail(probe.hdr.text), APP_SECRET).payload.userId

\* the CREATED event of a node
Event(kind, node) == [kind |-> kind, node |-> node]

\* the event was emitted after the connection registered
EmittedAfterReg(c, ev) ==
    \E i \in 1..Len(published) : published[i] = ev /\ i > conns[c].pubAtReg

PostOk(r) == Invoked(r) /\ reqs[r].op = "post" /\ Succeeded(r)

\* C6 as stated: for every post that succeeds, a newLink listener registered
\* before the post completed receives exactly one payload, the created Link,
\* and a newLink listener registered after the post completed receives none.
C6_AsStated ==
    \A r \in ReqIds, c \in ConnIds :
        (PostOk(r) /\ Done(r) /\ conns[c].st = "live" /\ conns[c].kind = "link")
            => CountIn(inbox[c], reqs[r].res.value)
                 = IF r \in conns[c].settledAtReg THEN 0 ELSE 1

\* C6 as amended: for every post that succeeds, a newLink listener that is
\* registered when the store creates the Link receives exactly one payload,
\* equal to the created Link; a listener registered after the Link was
\* created -- after the post completed, or between the creation and the
\* completion -- receives none; no listener ever receives it twice.
C6_Delivery ==
    \A r \in ReqIds, c \in ConnIds :
        (PostOk(r) /\ conns[c].st # "none" /\ conns[c].kind = "link")
            => LET link == reqs[r].res.value
                   n == CountIn(inbox[c], link)
               IN  /\ n <= 1
                   /\ conns[c].st = "live"
                        => n = IF EmittedAfterReg(c, Event("link", link)) THEN 1 ELSE 0
                   /\ ~EmittedAfterReg(c, Event("link", link)) => n = 0
                   /\ r \in conns[c].settledAtReg => n = 0

\* C6 witness: a listener registered after a first post had completed and
\* before the Link of a second post was created; it holds the second Link,
\* once, and not the first.
C6_Witness ==
    \E r1, r2 \in ReqIds, c \in ConnIds :
        /\ PostOk(r1) /\ PostOk(r2) /\ Done(r1) /\ Done(r2)
        /\ conns[c].st = "live" /\ conns[c].kind = "link"
        /\ r1 \in conns[c].settledAtReg /\ r2 \notin conns[c].settledAtReg
        /\ inbox[c] = <<reqs[r2].res.value>>
        /\ reqs[r1].res.value # reqs[r2].res.value

KindOf(op) == IF op = "post" THEN "link" ELSE "vote"

Creating(r) == Invoked(r) /\ reqs[r].op \in {"post", "vote"}

\* C7: every successful post publishes exactly one link.created event whose
\* payload is the Link it created, every successful vote exactly one
\* vote.created event whose payload is the Vote it created, and a post or
\* vote that fails publishes none: the events are those of the successes.
C7_PublishOnce ==
    /\ \A r \in ReqIds :
         (Creating(r) /\ Succeeded(r))
            => /\ CountIn(published, Event(KindOf(reqs[r].op), reqs[r].res.value)) = 1
               /\ IF reqs[r].op = "post"
                  THEN reqs[r].res.value \in SeqToSet(links)
                  ELSE reqs[r].res.value \in SeqToSet(votes)
    /\ Len(published) = Cardinality({r \in ReqIds : Creating(r) /\ Succeeded(r)})

\* C7 witness: a vote succeeded and a second vote of the same pair failed
\* with DuplicateVote; exactly the one vote.created event was published.
C7_Witness ==
    \E r1, r2 \in ReqIds :
        /\ VoteAttempt(r1, 1, 1) /\ Done(r1) /\ reqs[r1].res.kind = "ok"
        /\ VoteAttempt(r2, 1, 1) /\ Done(r2) /\ reqs[r2].res.kind = "DuplicateVote"
        /\ published = <<Event("vote", reqs[r1].res.value)>>

\* the Link has the filter text in its description or in its url; without
\* a filter every Link matches
Matches(link, filter) ==
    \/ ~filter.given
    \/ Contains(link.description, filter.text)
    \/ Contains(link.url, filter.text)

\* positions of the matching Links in the store
MatchingAt(filter) == {i \in 1..Len(links) : Matches(links[i], filter)}

\* the place of the matching Link at position i in the requested order
RankOf(i, filter, orderBy) ==
    IF orderBy = "createdAt_DESC"
    THEN Cardinality({j \in MatchingAt(filter) : j >= i})
    ELSE Cardinality({j \in MatchingAt(filter) : j <= i})

FeedDone(r) == Invoked(r) /\ reqs[r].op = "feed" /\ Done(r)

\* C8: for every store content and every filter, skip and first, feed
\* returns count = the number of Links matching the filter, whatever skip and
\* first are, and links = the matching Links in the requested order from
\* offset skip on, at most first of them when first is given.
C8_FeedPagination ==
    \A r \in ReqIds :
        FeedDone(r) =>
            LET a == reqs[r].args
                out == reqs[r].res.value
                n == Cardinality(MatchingAt(a.filter))
                skip == IF a.skip.given THEN a.skip.n ELSE 0
                rest == Max(n - skip, 0)
            IN  /\ out.count = n
                /\ Len(out.links) = IF a.first.given THEN Min(a.first.n, rest) ELSE rest
                /\ \A k \in 1..Len(out.links) :
                     \E i \in MatchingAt(a.filter) :
                        /\ RankOf(i, a.filter, a.orderBy) = skip + k
                        /\ out.links[k] = links[i]

\* C8 witness: two Links match, skip = 1 and first = 1 in descending order:
\* count is 2 and links is the one older Link.
C8_Witness ==
    /\ FeedDone(1)
    /\ reqs[1].args.skip = SomeInt(1) /\ reqs[1].args.first = SomeInt(1)
    /\ reqs[1].args.orderBy = "createdAt_DESC"
    /\ reqs[1].args.filter = SomeString(<<"G">>)
    /\ Len(links) = 2
    /\ reqs[1].res.value.count = 2
    /\ reqs[1].res.value.links = <<links[1]>>

\* C9: feed(filter: f) selects exactly the Links whose description contains
\* f or whose url contains f (case-sensitive, OR): every Link it returns is
\* such a Link, without skip and first every such Link is returned, and
\* without a filter every Link is.
C9_FilterSemantics ==
    \A r \in ReqIds :
        FeedDone(r) =>
            LET f == reqs[r].args.filter
                got == SeqToSet(reqs[r].res.value.links)
                has(l) == Contains(l.description, f.text) \/ Contains(l.url, f.text)
                unpaged == ~reqs[r].args.skip.given /\ ~reqs[r].args.first.given
            IN  /\ got \subseteq SeqToSet(links)
                /\ f.given => \A l \in got : has(l)
                /\ (f.given /\ unpaged) => \A l \in SeqToSet(links) : has(l) => l \in got
                /\ (~f.given /\ unpaged) => got = SeqToSet(links)

\* C9 witness: the filter "g" returns a Link that has it only in its url and
\* leaves out a Link that has "G" but no "g" in both fields.
C9_Witness ==
    /\ FeedDone(1)
    /\ reqs[1].args.filter = SomeString(<<"g">>)
    /\ ~reqs[1].args.skip.given /\ ~reqs[1].args.first.given
    /\ links = <<Link(1, <<"g">>, <<"G">>, 1), Link(2, <<"G">>, <<"G">>, 1)>>
    /\ reqs[1].res.value.links = <<links[1]>>

SignupOk(r) == Invoked(r) /\ reqs[r].op = "signup" /\ Done(r) /\ reqs[r].res.kind = "ok"

\* C10: after a successful signup(email, password, name), login(email,
\* password) succeeds and returns a token for which the Identity Extractor
\* returns the id of the User the signup created; login with the same email
\* and a different password fails with InvalidCredentials.
C10_RoundTrip ==
    \A r1, r2 \in ReqIds :
        (/\ SignupOk(r1) /\ r1 < r2
         /\ reqs[r2].op = "login" /\ Done(r2)
         /\ reqs[r2].args.email = reqs[r1].args.email)
            => IF reqs[r2].args.password = reqs[r1].args.password
               THEN /\ reqs[r2].res.kind = "ok"
                    /\ getUserId(Header(<<Bearer, reqs[r2].res.value.token>>))
                         = [ok |-> TRUE, kind |-> "ok",
                            userId |-> reqs[r1].res.value.user.id]
                    /\ reqs[r1].res.value.user \in SeqToSet(users)
               ELSE reqs[r2].res.kind = "InvalidCredentials"

\* C10 witness: Bob signed up, logged in with his password and got a token
\* for his id, and a login with another password failed.
C10_Witness ==
    /\ SignupOk(1) /\ reqs[1].args.email = "bob@x" /\ reqs[1].args.password = "pw2"
    /\ reqs[2].op = "login" /\ Done(2) /\ reqs[2].args = [email |-> "bob@x", password |-> "pw2"]
    /\ reqs[2].res.kind = "ok"
    /\ reqs[2].res.value.token.payload.userId = reqs[1].res.value.user.id
    /\ reqs[3].op = "login" /\ Done(3) /\ reqs[3].args = [email |-> "bob@x", password |-> "pw1"]
    /\ reqs[3].res.kind = "InvalidCredentials"

\* the Users that have the email
UsersWithEmail(email) == {i \in 1..Len(users) : users[i].email = email}

FailedLogin(q) == q.op = "login" /\ q.res.kind \in {"NoSuchUser", "InvalidCredentials"}

\* C11, the outcome: when the store answers the lookup of a login, the login
\* fails with NoSuchUser if no User has the email, whatever the password, and
\* with InvalidCredentials if a User has it and the password does not verify
\* against that User's stored hash.
LoginFailureKind ==
    \A r \in ReqIds :
        (reqs[r].op = "login" /\ reqs[r].pc = "user" /\ Steps(r))
            => LET hits == UsersWithEmail(reqs[r].args.email)
               IN  /\ hits = {} => reqs'[r].res.kind = "NoSuchUser"
                   /\ (hits # {} /\ \A i \in hits :
                          users[i].password.digest
                            # <<users[i].password.salt, reqs[r].args.password>>)
                        => reqs'[r].res.kind = "InvalidCredentials"

\* C11, the frame: no step of a login that fails carries or hands out a
\* token, or changes the store.
LoginFailureNoEffect ==
    \A r \in ReqIds :
        (Steps(r) /\ FailedLogin(reqs'[r]))
            => /\ reqs'[r].res.value = NoValue
               /\ UNCHANGED <<users, links, votes, linkSeq, published, inbox, tokens>>

\* C11: login fails with NoSuchUser when no User has the given email
\* (whatever the password) and with InvalidCredentials when the User exists
\* but the password does not verify against its stored hash; in both failures
\* no token is issued and the store is unchanged.
C11_LoginFailures == [][LoginFailureKind /\ LoginFailureNoEffect]_vars

\* C11 witness: a login for an email nobody has failed with NoSuchUser and a
\* login for Alice with another password failed with InvalidCredentials; no
\* token was handed out and Alice is still the only User.
C11_Witness ==
    \E r1, r2 \in ReqIds :
        /\ Done(r1) /\ reqs[r1].op = "login" /\ reqs[r1].args.email = "bob@x"
        /\ reqs[r1].res.kind = "NoSuchUser"
        /\ Done(r2) /\ reqs[r2].op = "login"
        /\ reqs[r2].args = [email |-> "alice@x", password |-> "pw2"]
        /\ reqs[r2].res.kind = "InvalidCredentials"
        /\ users = <<Alice>> /\ tokens = {AliceToken}

\* C12: in every reachable state the password stored for every User is a
\* bcrypt hash and never a clear text, and the User a successful signup
\* created holds a hash of the password that signup was given, in place of
\* args.password.
C12_PasswordHashed ==
    /\ \A i \in 1..Len(users) :
         /\ users[i].password.alg = "bcrypt"
         /\ users[i].password \notin {Plain(p) : p \in Passwords}
    /\ \A r \in ReqIds :
         (Invoked(r) /\ reqs[r].op = "signup" /\ Succeeded(r))
            => LET u == reqs[r].res.value.user
               IN  /\ u \in SeqToSet(users)
                   /\ u.password # Plain(reqs[r].args.password)
                   /\ \E salt \in Salts :
                        u.password = BcryptHash(reqs[r].args.password, salt)

\* C12 witness: Bob signed up with "pw2" and the second User holds the bcrypt
\* hash of "pw2".
C12_Witness ==
    \E r \in ReqIds :
        /\ SignupOk(r) /\ reqs[r].args.email = "bob@x" /\ reqs[r].args.password = "pw2"
        /\ Len(users) = 2 /\ users[2].email = "bob@x"
        /\ users[2].password = BcryptHash("pw2", users[2].password.salt)
        /\ users[2].password.alg = "bcrypt"

\* C13, the invariant: no two Users have the same email.
UniqueEmails ==
    \A i, j \in 1..Len(users) : users[i].email = users[j].email => i = j

\* C13, the step: a signup whose email is taken when the store applies
\* createUser fails with DuplicateEmail, creates no User and returns no token;
\* no step of a signup that failed so hands out a token.
DuplicateEmailStep ==
    \A r \in ReqIds :
        /\ (reqs[r].op = "signup" /\ reqs[r].pc = "createUser" /\ Steps(r)
              /\ UsersWithEmail(reqs[r].args.email) # {})
             => /\ reqs'[r].res = Err("DuplicateEmail")
                /\ users' = users
        /\ (Steps(r) /\ reqs'[r].res.kind = "DuplicateEmail")
             => UNCHANGED <<users, tokens>>

\* C13: after any sequence or interleaving of signup calls no two Users in
\* the store have the same email: a signup whose email is already taken fails
\* with DuplicateEmail, creates no User and returns no token.
C13_UniqueEmail == [](UniqueEmails) /\ [][DuplicateEmailStep]_vars

\* C13 witness: two signups for bob@x were both invoked before either reached
\* the store; the first to reach it created Bob, the other failed with
\* DuplicateEmail, and only its winner's token was handed out.
C13_Witness ==
    /\ reqs[1].op = "signup" /\ reqs[2].op = "signup"
    /\ reqs[1].args.email = "bob@x" /\ reqs[2].args.email = "bob@x"
    /\ Done(1) /\ Done(2)
    /\ reqs[2].res.kind = "ok" /\ reqs[1].res.kind = "DuplicateEmail"
    /\ Len(users) = 2
    /\ tokens = {AliceToken, reqs[2].res.value.token}

\* the user id carried by the token of a header "Bearer <token>"
CallerOf(hdr) ==
    IF hdr.present /\ Len(hdr.text) = 2 THEN hdr.text[2].payload.userId ELSE 0

\* C14, the gate: a post invoked without a valid token is refused.
PostNeedsAuth ==
    \A r \in ReqIds :
        (Invoked(r) /\ reqs[r].op = "post" /\ BadCredential(reqs[r].hdr))
            => (Decided(r) /\ reqs[r].res.kind = "NotAuthenticated")

\* C14, the step: the step that makes a post succeed stores one new Link,
\* whose postedBy is the user id of the caller's token and resolves to that
\* User, and returns that Link; and Links are created by such steps only.
PostCreatesOwned ==
    /\ \A r \in ReqIds :
         (reqs'[r].op = "post" /\ Steps(r) /\ reqs'[r].res.kind = "ok"
            /\ reqs[r].res.kind # "ok")
            => LET link == reqs'[r].res.value
                   caller == CallerOf(reqs[r].hdr)
               IN  /\ caller # 0
                   /\ links' = Append(links, link)
                   /\ link.postedBy = caller
                   /\ LinkPostedBy(links', users', link)
                        = [found |-> TRUE,
                           user |-> users[CHOOSE j \in 1..Len(users) : users[j].id = caller]]
    /\ Len(links') > Len(links)
         => \E r \in ReqIds : reqs'[r].op = "post" /\ Steps(r) /\ reqs'[r].res.kind = "ok"

\* C14: post requires authentication, and every Link that post creates has
\* postedBy equal to the user id carried by the caller's token; post returns
\* that created Link, and Link.postedBy on it resolves to the caller.
C14_PostOwned == [](PostNeedsAuth) /\ [][PostCreatesOwned]_vars

\* the store is about to apply the updateLink or deleteLink of request r
Applying(r, op) == reqs[r].op = op /\ reqs[r].pc = op /\ Steps(r)

LinkById(ls, id) == ls[CHOOSE i \in 1..Len(ls) : ls[i].id = id]

\* C16, updateLink: applied for an authenticated caller to an existing Link,
\* whoever posted it, it succeeds and sets the Link's url and description.
UpdateByAnyone ==
    \A r \in ReqIds :
        (Applying(r, "updateLink") /\ reqs[r].args.id \in LinkIdsOf(links))
            => /\ reqs'[r].res.kind = "ok"
               /\ LinkIdsOf(links') = LinkIdsOf(links)
               /\ LinkById(links', reqs[r].args.id).url = reqs[r].args.url
               /\ LinkById(links', reqs[r].args.id).description = reqs[r].args.description

\* no Vote references the Link
Unvoted(id) == \A i \in 1..Len(votes) : votes[i].link # id

\* C16, deleteLink as stated: applied to an existing Link it removes the Link.
DeleteByAnyone ==
    \A r \in ReqIds :
        (Applying(r, "deleteLink") /\ reqs[r].args.id \in LinkIdsOf(links))
            => /\ reqs'[r].res.kind = "ok"
               /\ LinkIdsOf(links') = LinkIdsOf(links) \ {reqs[r].args.id}

\* C16, deleteLink where it does hold: applied to an existing Link that no
\* Vote references it removes the Link, whoever posted it.
DeleteUnvotedByAnyone ==
    \A r \in ReqIds :
        (Applying(r, "deleteLink") /\ reqs[r].args.id \in LinkIdsOf(links)
           /\ Unvoted(reqs[r].args.id))
            => /\ reqs'[r].res.kind = "ok"
               /\ LinkIdsOf(links') = LinkIdsOf(links) \ {reqs[r].args.id}

\* the caller holds a valid token: nothing else is asked of it
OnlyTokenChecked ==
    \A r \in ReqIds :
        (Invoked(r) /\ reqs[r].op \in {"updateLink", "deleteLink"}
           /\ ~BadCredential(reqs[r].hdr))
            => reqs[r].res.kind # "NotAuthenticated"

\* C16: updateLink and deleteLink check only that the caller holds
\* a valid token, never ownership: for every authenticated user U and every
\* existing Link L, also one posted by another user or by nobody, U's
\* updateLink(L.id) changes L's url and description and U's deleteLink(L.id)
\* removes L.
C16_NoOwnership ==
    [](OnlyTokenChecked) /\ [][UpdateByAnyone /\ DeleteByAnyone]_vars

\* The part of C16 that holds when Votes exist: ownership is never checked,
\* and deleteLink removes every Link that no Vote references.
NoOwnershipUnvoted ==
    [](OnlyTokenChecked) /\ [][UpdateByAnyone /\ DeleteUnvotedByAnyone]_vars

\* Bob deleted the Link Alice posted, and Alice updated the Link nobody
\* posted.
DeletedByAnother ==
    \E r1, r2 \in ReqIds :
        /\ Done(r1) /\ reqs[r1].op = "deleteLink" /\ reqs[r1].userId = 2
        /\ reqs[r1].res.kind = "ok" /\ reqs[r1].res.value.postedBy = 1
        /\ Done(r2) /\ reqs[r2].op = "updateLink" /\ reqs[r2].userId = 1
        /\ reqs[r2].res.kind = "ok"
        /\ links = <<Link(2, <<"G">>, <<"g">>, 0)>>

\* C17: the link query by id returns the single Link with that id when one
\* exists and returns null, never an error, when no Link has that id; it
\* changes no stored state.
C17_LinkQuery ==
    [][\A r \in ReqIds :
         (reqs'[r].op = "link" /\ Steps(r) /\ ~Decided(r) /\ reqs'[r].pc = "settle")
            => /\ reqs'[r].res.kind = "ok"
               /\ reqs'[r].res.value
                    = IF reqs'[r].args.id \in LinkIdsOf(links)
                      THEN LinkById(links, reqs'[r].args.id)
                      ELSE Null
               /\ UNCHANGED <<users, links, votes, linkSeq, published, inbox>>]_vars

\* C18, the outcome: a feed query is never refused, whatever its
\* Authorization header, and no caller identity is extracted for it.
FeedOpen ==
    \A r \in ReqIds :
        (Invoked(r) /\ reqs[r].op = "feed")
            => /\ reqs[r].userId = 0
               /\ reqs[r].res.kind \in {"pending", "ok"}
               /\ Decided(r) => reqs[r].res.kind = "ok"

\* C18, the frame: no step of a feed query changes Users, Links or Votes or
\* publishes an event.
FeedReadOnly ==
    \A r \in ReqIds :
        (Steps(r) /\ reqs'[r].op = "feed")
            => UNCHANGED <<users, links, votes, linkSeq, published, inbox, tokens>>

\* C18: feed requires no authentication and is read-only: it succeeds whether
\* or not an Authorization header is present or valid, never invokes the
\* Identity Extractor, and leaves Users, Links and Votes unchanged and
\* publishes no event.
C18_FeedOpen == [](FeedOpen) /\ [][FeedReadOnly]_vars

\* C18 witness: a feed query without a header and one with a forged token
\* have both succeeded and returned the Link of the store.
C18_Witness ==
    /\ FeedDone(1) /\ reqs[1].hdr = NoHeader /\ reqs[1].res.kind = "ok"
    /\ FeedDone(2) /\ reqs[2].hdr \in ForgedHeaders /\ reqs[2].res.kind = "ok"
    /\ reqs[1].res.value.links = links /\ reqs[2].res.value.count = 1
    /\ Len(links) = 1 /\ votes = <<>> /\ published = <<>>

\* the existence check of the attempt would answer 'exists'
PairExists(r) == ExistsVote(votes, reqs[r].userId, reqs[r].args.linkId)

\* C20, as steps of one vote attempt r:
\*  - the existence check is issued at invocation, for the authenticated caller;
\*  - createVote is issued only by the step that answers that check 'absent';
\*  - the step that answers it 'exists' rejects the attempt with DuplicateVote,
\*    creating no Vote and publishing no event;
\*  - a Vote is created, and its event published, only by the step that
\*    applies the attempt's createVote;
\*  - no step of an attempt that is rejected creates a Vote or publishes.
VoteStepOrder ==
    \A r \in ReqIds :
        (Steps(r) /\ reqs'[r].op = "vote") =>
            /\ reqs'[r].pc = "existsVote"
                 => /\ reqs[r].pc = "idle"
                    /\ ~BadCredential(reqs'[r].hdr)
                    /\ reqs'[r].userId = CallerOf(reqs'[r].hdr)
            /\ reqs'[r].pc = "createVote"
                 => reqs[r].pc = "existsVote" /\ ~PairExists(r)
            /\ (reqs[r].pc = "existsVote" /\ PairExists(r))
                 => /\ reqs'[r].pc = "settle"
                    /\ reqs'[r].res = Err("DuplicateVote")
                    /\ UNCHANGED <<votes, published, inbox>>
            /\ (votes' # votes \/ published' # published)
                 => reqs[r].pc = "createVote"
            /\ reqs'[r].res.kind = "DuplicateVote"
                 => UNCHANGED <<votes, published, inbox>>

\* C20: within one vote attempt the steps occur in the order authenticate,
\* check existence, then create: createVote is issued only after the existence
\* check of that same attempt returned 'absent', and when the check returns
\* 'exists' the attempt ends rejected with no Vote created and no event
\* published.
C20_VoteStepOrder == [][VoteStepOrder]_vars

\* C20 witness: Alice's first attempt for Link 1 went through check and
\* create; her second attempt, invoked after the Vote existed, was rejected
\* by its check; one Vote and one event exist.
C20_Witness ==
    /\ VoteAttempt(1, 1, 1) /\ Done(1) /\ reqs[1].res.kind = "ok"
    /\ VoteAttempt(2, 1, 1) /\ Done(2) /\ reqs[2].res.kind = "DuplicateVote"
    /\ votes = <<reqs[1].res.value>>
    /\ Len(published) = 1 /\ published[1].node = reqs[1].res.value

Terminated(c) == conns[c].st \in {"closed", "lost"}

\* C19, the registry: a live connection has exactly one registration, a
\* connection that is not open (yet, or any more) has none.
OneRegistration ==
    \A c \in ConnIds :
        /\ conns[c].st = "live" => (conns[c].regs = 1 /\ c \in Listeners(conns[c].kind))
        /\ conns[c].st # "live"
             => (conns[c].regs = 0 /\ \A k \in {"link", "vote"} : c \notin Listeners(k))

\* C19, the deliveries: a connection that terminated stays terminated and
\* without a registration, and nothing is delivered to it any more; a
\* delivery goes to a connection that is live.
NoDeliveryAfterTeardown ==
    \A c \in ConnIds :
        /\ Terminated(c) => (conns'[c] = conns[c] /\ inbox'[c] = inbox[c])
        /\ inbox'[c] # inbox[c] => conns[c].st = "live"

VoteScoped ==
    \A r \in ReqIds :
        (Steps(r) /\ reqs'[r].op = "vote") =>
            /\ reqs'[r].res.kind = "DuplicateVote"
                 => \E i \in 1..Len(votes) :
                       /\ votes[i].user = CallerOf(reqs'[r].hdr)
                       /\ votes[i].link = reqs'[r].args.linkId
            /\ votes' # votes
                 => /\ Len(votes') = Len(votes) + 1
                    /\ SubSeq(votes', 1, Len(votes)) = votes
                    /\ votes'[Len(votes')].user = CallerOf(reqs[r].hdr)
                    /\ votes'[Len(votes')].link = reqs[r].args.linkId
                    /\ reqs'[r].res = Ok(votes'[Len(votes')])

\* C21: the duplicate-vote check is scoped to the exact (caller, link) pair:
\* an existing Vote by user U on link A never causes DuplicateVote for U
\* voting on a different link B, nor for a different user V voting on A; and
\* every Vote that vote creates connects exactly the caller's id and the
\* linkId argument.
C21_VoteScoped == [][VoteScoped]_vars

\* C21 witness: with Alice's Vote for Link 1 in the store, Alice voted for
\* Link 2 and Bob voted for Link 1, and both succeeded.
C21_Witness ==
    /\ votes[1] = Vote(1, 1, 1) /\ Len(votes) = 3
    /\ VoteAttempt(1, 1, 2) /\ Done(1) /\ reqs[1].res.kind = "ok"
    /\ VoteAttempt(2, 2, 1) /\ Done(2) /\ reqs[2].res.kind = "ok"
    /\ \E i, j \in 2..3 : /\ votes[i].user = 1 /\ votes[i].link = 2
                          /\ votes[j].user = 2 /\ votes[j].link = 1

\* the connection holds a live subscription to the events of the kind
Subscribed(c, kind) == conns[c].st = "live" /\ conns[c].kind = kind

\* C22, a publish: the step that emits an event appends one copy of its
\* payload to every connection subscribed to its kind in the state the
\* publish starts from, and to no other; a step that emits nothing delivers
\* nothing.
PublishToSnapshot ==
    IF published' # published
    THEN /\ Len(published') = Len(published) + 1
         /\ LET ev == published'[Len(published')]
            IN  \A c \in ConnIds :
                    inbox'[c] = IF Subscribed(c, ev.kind)
                                THEN Append(inbox[c], ev.node)
                                ELSE inbox[c]
    ELSE inbox' = inbox

\* C22, the registry: a step that registers or removes the listener of one
\* connection leaves the registration of every other connection as it was.
RegistrationIsolated ==
    \A c, d \in ConnIds :
        (c # d /\ conns'[c] # conns[c]) => conns'[d] = conns[d]

IsPrefix(s, t) == Len(s) <= Len(t) /\ SubSeq(t, 1, Len(s)) = s

\* C23, the step: every Vote and every User of the store is there, as it
\* was, after the step; a User is added only by a step of a signup and a
\* Vote only by a step of a vote.
CreateOnly ==
    /\ IsPrefix(votes, votes')
    /\ IsPrefix(users, users')
    /\ users' # users => \E r \in ReqIds : Steps(r) /\ reqs[r].op = "signup"
    /\ votes' # votes => \E r \in ReqIds : Steps(r) /\ reqs[r].op = "vote"

\* C23: Votes are create-only and Users are immutable after signup: no
\* operation of the core (post, updateLink, deleteLink, signup, login, vote,
\* feed, link) modifies or removes an existing Vote, and none changes the
\* email, name or password of an existing User; only signup adds a User and
\* only vote adds a Vote.
C23_CreateOnly == [][CreateOnly]_vars

\* C23 witness: Alice voted for Link 1, and a deleteLink of Link 1 was then
\* applied: it failed in the store, and the Vote and Alice are as they were.
C23_Witness ==
    /\ VoteAttempt(1, 1, 1) /\ Done(1) /\ reqs[1].res.kind = "ok"
    /\ reqs[2].op = "deleteLink" /\ reqs[2].args.id = 1 /\ Done(2)
    /\ reqs[2].res.kind = "StorageError"
    /\ votes = <<reqs[1].res.value>>
    /\ users = <<Alice>>

\* C24, the state: every Vote refers to a Link and to a User of the store.
VotesRefer ==
    \A i \in 1..Len(votes) :
        /\ Cardinality({j \in 1..Len(links) : links[j].id = votes[i].link}) = 1
        /\ Cardinality({j \in 1..Len(users) : users[j].id = votes[i].user}) = 1

\* C24, the steps: the createVote of a vote whose linkId names no Link of
\* the store adds no Vote and fails the vote; a step after which a Link is
\* gone leaves no Vote that refers to it.
VotesReferStep ==
    /\ \A r \in ReqIds :
         (Steps(r) /\ reqs[r].op = "vote" /\ reqs[r].pc = "createVote"
             /\ reqs[r].args.linkId \notin LinkIdsOf(links))
            => (votes' = votes /\ reqs'[r].res.kind \notin {"ok", "pending"})
    /\ \A id \in LinkIdsOf(links) \ LinkIdsOf(links') :
         \A i \in 1..Len(votes') : votes'[i].link # id

\* C24: in every reachable state every stored Vote references exactly one
\* Link and one User that both exist in the store: a vote whose linkId
\* resolves to no Link creates no Vote, and after any sequence of operations
\* that includes deleteLink on a Link which has Votes, no Vote is left
\* referencing the deleted Link.
C24_VotesRefer == [](VotesRefer) /\ [][VotesReferStep]_vars

\* C24 witness: a vote for Link 1 had passed its existence check when a
\* deleteLink removed Link 1; the createVote then failed, and the store holds
\* neither the Link nor a Vote.
C24_Witness ==
    \E r1, r2 \in ReqIds :
        /\ VoteAttempt(r1, 1, 1) /\ Done(r1) /\ reqs[r1].res.kind = "StorageError"
        /\ reqs[r2].op = "deleteLink" /\ reqs[r2].args.id = 1
        /\ Done(r2) /\ reqs[r2].res.kind = "ok"
        /\ links = <<>> /\ votes = <<>>

\* C25: feed reads the link list and the total count with two separate
\* facade calls; even when post or deleteLink calls interleave with a feed
\* call, the returned count equals the number of matching Links in the store
\* state from which the returned links were read (with skip = 0 and no
\* first, count equals the length of links).
C25_FeedSnapshot ==
    [][\A r \in ReqIds :
         (Steps(r) /\ reqs[r].op = "feed" /\ reqs[r].pc = "links") =>
            LET out == reqs'[r].res.value
                a == reqs[r].args
            IN  /\ out.count = Cardinality(MatchingAt(a.filter))
                /\ (~a.skip.given /\ ~a.first.given) => out.count = Len(out.links)]_vars

\* a feed whose count was read before a post created a matching Link and
\* whose links were read after it: the list is one longer than the count
FeedTornRead ==
    \E r \in ReqIds :
        /\ FeedDone(r) /\ ~reqs[r].args.filter.given /\ ~reqs[r].args.first.given
        /\ reqs[r].res.value.count = 1
        /\ Len(reqs[r].res.value.links) = 2

\* C26: in the early in-memory variant of the server, deleteLink with an id
\* that matches no element of the links list removes no link: the list is
\* the same before and after the call.
C26_DeleteMissing ==
    [][\A r \in ReqIds :
         (Steps(r) /\ reqs'[r].op = "deleteLink"
             /\ reqs'[r].args.id \notin LinkIdsOf(links))
            => links' = links]_vars

\* a deleteLink that named no Link of the list removed the one Link the
\* list held
DeleteMissingRemovedLast ==
    \E r \in ReqIds :
        /\ reqs[r].op = "deleteLink" /\ reqs[r].args.id = 1 /\ Done(r)
        /\ idCount = 1
        /\ links = <<>>

\* the ids the early server has handed out to posts
PostedIds(rs) == {r \in ReqIds : rs[r].op = "post" /\ rs[r].res.kind = "ok"}

\* C30, the state: the Links of the list have pairwise distinct ids, and the
\* posts so far were each given an id of their own, different from that of
\* the Link the server started with, whether or not their Link is still in
\* the list.
DistinctIds ==
    /\ \A i, j \in 1..Len(links) : links[i].id = links[j].id => i = j
    /\ \A r, q \in PostedIds(reqs) :
         /\ reqs[r].res.value.id # 0
         /\ reqs[r].res.value.id = reqs[q].res.value.id => r = q

\* C30, the step: idCount never decreases, and the post that takes the step
\* is given an id that no Link of the list has.
IdCountGrows ==
    /\ idCount' >= idCount
    /\ \A r \in ReqIds :
         (Steps(r) /\ reqs'[r].op = "post")
            => /\ idCount' = idCount + 1
               /\ reqs'[r].res.value.id \notin LinkIdsOf(links)

\* C30: in the early in-memory variant of the server, after any sequence of
\* post, updateLink and deleteLink calls all links in the list have pairwise
\* distinct ids, and an id once assigned is never assigned again to a later
\* link even after the first one is deleted (idCount only increases).
C30_DistinctIds == [](DistinctIds) /\ [][IdCountGrows]_vars

\* C30 witness: a post was given id 1, its Link was deleted, and the next
\* post was given id 2: the list holds the Links 0 and 2.
C30_Witness ==
    /\ reqs[1].op = "post" /\ reqs[1].res.value.id = 1
    /\ reqs[2].op = "deleteLink" /\ reqs[2].args.id = 1
    /\ reqs[3].op = "post" /\ reqs[3].res.value.id = 2
    /\ LinkIdsOf(links) = {0, 2}

\* the request r takes the step as an operation op and returns x from it
Returns(r, op, x) == Steps(r) /\ reqs[r].op = op /\ reqs'[r].res = Ok(x)

\* C27, what a listener receives: a payload pushed to a newLink connection
\* is the Link a post creates in that step, and one pushed to a newVote
\* connection is the Vote a vote creates in that step.
RoutedByKind ==
    \A c \in ConnIds :
        inbox'[c] # inbox[c] =>
            \E x \in SeqToSet(inbox'[c]) :
                /\ inbox'[c] = Append(inbox[c], x)
                /\ IF conns[c].kind = "link"
                   THEN /\ links' = Append(links, x)
                        /\ \E r \in ReqIds : Returns(r, "post", x)
                   ELSE /\ conns[c].kind = "vote"
                        /\ votes' = Append(votes, x)
                        /\ \E r \in ReqIds : Returns(r, "vote", x)

\* C27, what delivers nothing: no step of an updateLink, a deleteLink, a
\* signup, a login or a feed pushes a payload to a connection or emits an
\* event.
OnlyCreationTriggers ==
    \A r \in ReqIds :
        (Steps(r) /\ reqs'[r].op \in {"updateLink", "deleteLink", "signup", "login", "feed"})
            => UNCHANGED <<inbox, published>>

\* C27: events are routed by kind and only creation triggers them: a newLink
\* listener receives payloads only for Links created by post and a newVote
\* listener only for Votes created by vote; updateLink, deleteLink, signup,
\* login and feed deliver nothing to either kind of listener.
C27_Routing == [][RoutedByKind /\ OnlyCreationTriggers]_vars

\* C27 witness: with a newLink and a newVote connection live, a vote for
\* Link 1 and an updateLink of Link 1 have succeeded: the newVote connection
\* holds the Vote, and the newLink connection nothing.
C27_Witness ==
    /\ conns[1].st = "live" /\ conns[1].kind = "link"
    /\ conns[2].st = "live" /\ conns[2].kind = "vote"
    /\ reqs[1].op = "vote" /\ Done(1) /\ reqs[1].res.kind = "ok"
    /\ reqs[2].op = "updateLink" /\ Done(2) /\ reqs[2].res.kind = "ok"
    /\ inbox[1] = <<>>
    /\ inbox[2] = <<reqs[1].res.value>>

\* C27 witness, the Links: a post succeeded with both connections live and
\* the newLink connection alone holds the Link.
LinkRouted ==
    /\ conns[1].st = "live" /\ conns[1].kind = "link"
    /\ conns[2].st = "live" /\ conns[2].kind = "vote"
    /\ reqs[1].op = "post" /\ Done(1) /\ reqs[1].res.kind = "ok"
    /\ inbox[1] = <<reqs[1].res.value>>
    /\ inbox[2] = <<>>

\* the token and the payload of a signup that returned
TokenOf(q) == q.res.value.token

\* C28, the state: the token a signup has returned carries the id of a User
\* of the store, the User the signup returned with it, and every token
\* handed out carries the id of a User of the store.
SignupTokenOfUser ==
    /\ \A r \in ReqIds :
         (reqs[r].op = "signup" /\ Succeeded(r))
            => /\ TokenOf(reqs[r]) = JwtSign([userId |-> reqs[r].res.value.user.id], APP_SECRET)
               /\ reqs[r].res.value.user \in SeqToSet(users)
    /\ \A t \in tokens : t.payload.userId \in UserIdsOf(users)

\* C28, the steps of a signup: the call sent to the store carries the hash,
\* so the hash was computed before; the token is made in the step in which
\* the store creates the User, for the id of that User; a step in which the
\* creation fails returns no token and hands none out.
SignupOrder ==
    \A r \in ReqIds :
        (Steps(r) /\ reqs'[r].op = "signup") =>
            /\ reqs'[r].pc = "createUser"
                 => /\ reqs[r].pc = "idle"
                    /\ \E s \in Salts :
                          reqs'[r].local.password = BcryptHash(reqs'[r].args.password, s)
            /\ reqs[r].pc = "createUser"
                 => IF reqs'[r].res.kind = "ok"
                    THEN /\ users' = Append(users, reqs'[r].res.value.user)
                         /\ TokenOf(reqs'[r]).payload.userId = users'[Len(users')].id
                    ELSE /\ users' = users
                         /\ reqs'[r].res.value = NoValue
            /\ tokens' # tokens
                 => /\ reqs[r].pc = "settle" /\ reqs[r].res.kind = "ok"
                    /\ tokens' = tokens \cup {TokenOf(reqs[r])}

\* C28: signup performs hash, then create User, then issue token, in that
\* order: it never returns a token whose embedded user id is not the id of a
\* User present in the store, and when the User creation fails no token is
\* issued.
C28_SignupOrder == [](SignupTokenOfUser) /\ [][SignupOrder]_vars

\* C28 witness: a signup for the email Alice has failed in the store and
\* returned no token; a signup for bob@x created User 2 and returned the
\* token of User 2, the only token handed out since.
C28_Witness ==
    /\ reqs[1].op = "signup" /\ reqs[1].args.email = "alice@x" /\ Done(1)
    /\ reqs[1].res = Err("DuplicateEmail")
    /\ reqs[2].op = "signup" /\ reqs[2].args.email = "bob@x" /\ Done(2)
    /\ reqs[2].res.kind = "ok"
    /\ TokenOf(reqs[2]).payload.userId = 2 /\ users[2].id = 2
    /\ tokens = {AliceToken, TokenOf(reqs[2])}

\* the header a client sends with a token it holds
BearerHeader(t) == Header(<<Bearer, t>>)

\* C29, the state: the Identity Extractor accepts every token handed out so
\* far, as the user whose id the token carries; and the token a signup or a
\* login has handed out carries the id of the User it was issued for.
TokensAccepted ==
    /\ \A t \in tokens :
         getUserId(BearerHeader(t)) = [ok |-> TRUE, kind |-> "ok", userId |-> t.payload.userId]
    /\ \A r \in ReqIds :
         (reqs[r].op \in {"signup", "login"} /\ Done(r) /\ reqs[r].res.kind = "ok")
            => /\ TokenOf(reqs[r]) \in tokens
               /\ TokenOf(reqs[r]).payload.userId = reqs[r].res.value.user.id

\* C29, the steps: no step takes a token back, and a protected operation
\* invoked with a token handed out earlier runs as the user of the token.
TokensKept ==
    /\ tokens \subseteq tokens'
    /\ \A r \in ReqIds : \A t \in tokens :
         (Steps(r) /\ reqs[r].pc = "idle" /\ reqs'[r].op \in ProtectedOps
             /\ reqs'[r].hdr = BearerHeader(t))
            => /\ reqs'[r].res.kind # "NotAuthenticated"
               /\ reqs'[r].userId = t.payload.userId

\* C29: a token issued by signup or login for user U is accepted by the
\* Identity Extractor as U in every later state, whatever operations happen
\* in between: tokens are issued without expiry, are never revoked, and
\* acceptance depends only on the signature under the process-wide secret,
\* not on any lookup of U in the store.
C29_TokensStayValid == [](TokensAccepted) /\ [][TokensKept]_vars

\* C29 witness: a signup created User 2 and returned its token, and a post
\* sent with that token afterwards created a Link posted by User 2.
C29_Witness ==
    /\ reqs[1].op = "signup" /\ Done(1) /\ reqs[1].res.kind = "ok"
    /\ reqs[1].res.value.user.id = 2
    /\ reqs[2].op = "post" /\ Done(2) /\ reqs[2].res.kind = "ok"
    /\ reqs[2].hdr = BearerHeader(TokenOf(reqs[1]))
    /\ reqs[2].res.value.postedBy = 2
    /\ reqs[2].res.value \in SeqToSet(links)

====
